---- MODULE Spec2Model ----
(***************************************************************************)
(* Credential and session management of the hamburgeria back end:          *)
(* registration, login, password update, the password-recovery flow and    *)
(* the session gate (cookie and Authorization header versions), with the   *)
(* start of the process and the browser's cookie.  Every request handler   *)
(* is a sequence of steps                                                  *)
(* separated by its awaits (store calls, bcrypt, mail); handlers of        *)
(* different requests interleave at those awaits.                          *)
(*                                                                         *)
(* The requests of the model are the ones that reach a handler: their body *)
(* passed the zod schema of the route, and on the password routes the      *)
(* per-address passwordResetLimiter let them through (the clients come     *)
(* from different addresses).  A handler reads the clock once per step.    *)
(***************************************************************************)
EXTENDS Integers, FiniteSets, Sequences, TLC

(***************************************************************************)
(* Bounds of the model.                                                    *)
(***************************************************************************)
\* number of requests that can be in flight at the same time
NProc == 2
\* number of reset tokens crypto.randomBytes hands out in one behaviour
MaxTokens == 2
\* clock readings observed right after the start of a behaviour
NearStart == 0
\* clock readings observed before the end of the first reset window
NearBefore == 1
\* clock readings observed after the end of the first reset window
NearAfter == 1
\* resolution of the clock: ticks per minute
TicksPerMinute == 2
\* number of requests the server receives in one behaviour
MaxCalls == 4

Procs == 1..NProc
Emails == {"a@x.com", "b@x.com"}
Tokens == 1..MaxTokens

\* a password the zod schemas accept (8 to 100 characters): its first 72
\* bytes, which are all bcrypt reads, and the bytes after them
Password(first72, rest) == [first72 |-> first72, rest |-> rest]

\* 72 characters
LongPrefix == "NewPass1!-0123456789-0123456789-0123456789-0123456789-0123456789-0123456"

\* the passwords set by register, update-password and reset-password: one
\* of 9 characters and one of 73
Passwords == {Password("Abc12345!", ""), Password(LongPrefix, "Y")}

\* the passwords tried at login (loginSchema: any non-empty string): the
\* above and a 73 character one that differs from the other in its last
\* character
LoginPasswords == Passwords \cup {Password(LongPrefix, "Z")}

(***************************************************************************)
(* Program constants.                                                      *)
(***************************************************************************)
\* bcrypt cost used by registerUser, updatePassword, resetPasswordWithToken
BcryptRounds == 12
\* minutes a reset token stays valid (15 * 60 * 1000 ms)
ResetWindowMinutes == 15
ResetWindow == ResetWindowMinutes * TicksPerMinute
\* JWT_EXPIRES_IN default "1d", in minutes
JwtLifetimeMinutes == 1440
JwtLifetime == JwtLifetimeMinutes * TicksPerMinute
\* the fallback key of jwt.util.ts
DefaultSecret == "your-secret-key-change-in-production"
\* the value JWT_SECRET has in a configured environment
ServerSecret == "JWT_SECRET of the .env file"
\* maxAge of the session cookie (7 * 24 * 60 * 60 * 1000 ms), in minutes
CookieMaxAgeMinutes == 10080
CookieMaxAge == CookieMaxAgeMinutes * TicksPerMinute

\* the clock readings of the model
Instants == (0..NearStart) \cup ((ResetWindow - NearBefore)..(ResetWindow + NearAfter))

\* the clock readings of the services model: the start, and the reset window
\* over
ServiceInstants == (0..NearStart) \cup {ResetWindow + NearAfter}

\* the clock readings of the session model: around the end of a session
\* token's lifetime, and the end of the cookie's
SessionInstants ==
  (0..NearStart) \cup ((JwtLifetime - NearBefore)..JwtLifetime) \cup {CookieMaxAge}

(***************************************************************************)
(* Values.                                                                 *)
(***************************************************************************)
\* JavaScript null / undefined
NULL == [null |-> TRUE]
\* a reset token: crypto.randomBytes(32).toString("hex"), n-th draw
HexToken(n) == [hex |-> n]
\* a Date
DateAt(t) == [time |-> t]
\* bcrypt.hash(plaintext, rounds): bcrypt reads the first 72 bytes of the
\* plaintext and ignores the rest
BcryptHash(plaintext, rounds) == [alg |-> "$2b$", cost |-> rounds, plain |-> plaintext.first72]
\* bcrypt.compare(plaintext, hash)
BcryptCompare(plaintext, hash) == hash.plain = plaintext.first72

VARIABLES
  users,      \* the User table: a set of records
  now,        \* the wall clock, in ticks
  nextToken,  \* index of the next draw of crypto.randomBytes
  outbox,     \* reset emails accepted by the mail provider
  consumed,   \* history: reset tokens a resetPassword call has succeeded with
  pc,         \* per request slot: the await its handler is suspended at
  req,        \* per request slot: the handler's input and locals
  res,        \* what the last step completed: a response or a gate pass
  calls,      \* number of requests received so far
  env,        \* process.env after dotenv: the variables that are defined
  server,     \* the process: "loading" its modules, "listening" or "failed"
  jar,        \* the browser's cookie named token: the last Set-Cookie it applied
  lastPassword, \* history: per email, the password most recently set
  limiter,    \* passwordResetLimiter's record of one client address
  script      \* update-all-passwords.ts: the run in progress and the runs completed

vars == <<users, now, nextToken, outbox, consumed, pc, req, res, calls,
          env, server, script, jar, lastPassword, limiter>>

(***************************************************************************)
(* The environment and the start of the process.                           *)
(***************************************************************************)
\* process.env["NODE_ENV"] === "production"
isProduction == "NODE_ENV" \in DOMAIN env /\ env.NODE_ENV = "production"

\* variant of jwt.util.ts whose module is loaded before the .env file is
\* read, so that it finds no JWT_SECRET; C34 must not hold of it
JwtSecretBeforeDotenv == DefaultSecret

\* jwt.util.ts: process.env["JWT_SECRET"] ?? "your-secret-key-change-in-production"
JWT_SECRET == IF "JWT_SECRET" \in DOMAIN env THEN env.JWT_SECRET ELSE DefaultSecret

\* variant of getJwtSecret that falls back to the key of jwt.util.ts instead
\* of throwing; C17 must not hold of it
getJwtSecretOrDefault == [threw |-> FALSE, secret |-> JWT_SECRET]

\* auth.middleware.ts getJwtSecret: the secret, or the error it throws
getJwtSecret ==
  IF "JWT_SECRET" \notin DOMAIN env \/ env.JWT_SECRET = ""
  THEN [threw |-> TRUE, secret |-> ""]
  ELSE [threw |-> FALSE, secret |-> env.JWT_SECRET]

\* auth.middleware.ts: const JWT_SECRET = getJwtSecret(), in a process that started
MiddlewareSecret == getJwtSecret.secret

\* the environments a process is started in
Environments ==
  {[NODE_ENV |-> n, JWT_SECRET |-> k] : n \in {"production", "development"},
                                        k \in {"", ServerSecret}}
  \cup {[NODE_ENV |-> n] : n \in {"production", "development"}}

(***************************************************************************)
(* The store (Prisma on the User model).                                   *)
(***************************************************************************)
\* prisma select: the listed fields of a record, null stays null
Select(r, fields) == IF r = NULL THEN NULL ELSE [f \in fields |-> r[f]]

\* prisma findUnique / findFirst: one of the matching records or null
FindFirst(matches) == IF matches = {} THEN NULL ELSE CHOOSE u \in matches : TRUE

\* user.repository.ts findUserByEmail
findUserByEmail(email) == FindFirst({u \in users : u.email = email})

\* user.repository.ts findUserByEmailWithPassword
findUserByEmailWithPassword(email) ==
  Select(FindFirst({u \in users : u.email = email}),
         {"id", "email", "password", "name", "cep", "telefone"})

\* password.repository.ts findUserByEmailForReset
findUserByEmailForReset(email) ==
  Select(FindFirst({u \in users : u.email = email}),
         {"id", "email", "resetToken", "resetTokenExpiry"})

\* variant of findUserByValidToken that matches the token alone; C5 must not
\* hold of it
findUserByTokenOnly(token) ==
  Select(FindFirst({u \in users : u.resetToken = token}), {"id", "email"})

\* variant of findUserByValidToken that also matches the tokens emailed
\* earlier to a user whose record holds an unexpired token; C30 must not hold
\* of it
findUserByEmailedToken(token) ==
  Select(FindFirst({u \in users :
                      /\ u.resetTokenExpiry # NULL
                      /\ u.resetTokenExpiry.time >= now
                      /\ \/ u.resetToken = token
                         \/ \E m \in outbox : m.to = u.email /\ m.token = token}),
         {"id", "email"})

\* password.repository.ts findUserByValidToken
findUserByValidToken(token) ==
  Select(FindFirst({u \in users : /\ u.resetToken = token
                                  /\ u.resetTokenExpiry # NULL
                                  /\ u.resetTokenExpiry.time >= now}),
         {"id", "email"})

\* the record prisma.user.create inserts and returns: fresh id, reset fields null
createUser(data) ==
  [id |-> Cardinality(users) + 1, email |-> data.email, name |-> data.name,
   cep |-> data.cep, telefone |-> data.telefone, password |-> data.password,
   resetToken |-> NULL, resetTokenExpiry |-> NULL]

\* the unique constraint on User.email: create throws P2002 on a duplicate
UniqueViolation(email) == \E u \in users : u.email = email

\* user.repository.ts updateUserPassword: the table after prisma.user.update
updateUserPassword(data) ==
  {IF u.email = data.email THEN [u EXCEPT !.password = data.password] ELSE u : u \in users}

\* variant of updateResetToken that stores the token without its expiry; C3
\* must not hold of it
updateResetTokenOnly(data) ==
  {IF u.id = data.userId THEN [u EXCEPT !.resetToken = data.token] ELSE u : u \in users}

\* password.repository.ts updateResetToken: the table after prisma.user.update
updateResetToken(data) ==
  {IF u.id = data.userId
   THEN [u EXCEPT !.resetToken = data.token, !.resetTokenExpiry = data.expires]
   ELSE u : u \in users}

\* variant of updatePasswordAndClearToken that leaves the token in place; C1
\* must not hold of it
updatePasswordKeepToken(data) ==
  {IF u.id = data.userId THEN [u EXCEPT !.password = data.hashedPassword] ELSE u : u \in users}

\* password.repository.ts updatePasswordAndClearToken: the table after
\* prisma.user.update
updatePasswordAndClearToken(data) ==
  {IF u.id = data.userId
   THEN [u EXCEPT !.password = data.hashedPassword, !.resetToken = NULL,
                  !.resetTokenExpiry = NULL]
   ELSE u : u \in users}

(***************************************************************************)
(* Session tokens (jwt.util.ts, jsonwebtoken).                             *)
(***************************************************************************)
\* no token: the cookie is absent
NoJwt == [none |-> TRUE]

\* jwt.sign(payload, key, {expiresIn}) issued at time t: the claims, and the
\* signature as the key that made it and the claims it was made over
JwtSign(payload, key, t, lifetime) ==
  [wellFormed |-> TRUE, payload |-> payload, iat |-> t, exp |-> t + lifetime, key |-> key,
   signed |-> [payload |-> payload, iat |-> t, exp |-> t + lifetime]]

\* variant of generateToken whose token lives as long as the cookie; C16
\* must not hold of it
generateTokenForAWeek(userId, email) ==
  JwtSign([userId |-> userId, email |-> email], JWT_SECRET, now, CookieMaxAge)

\* jwt.util.ts generateToken
generateToken(userId, email) ==
  JwtSign([userId |-> userId, email |-> email], JWT_SECRET, now, JwtLifetime)

\* variant of SignatureValid that looks at the key alone; C13 must not
\* hold of it
SignatureKeyOnly(token, secret) == token.key = secret

\* the signature of the token is the one the secret gives for its claims
SignatureValid(token, secret) ==
  /\ token.key = secret
  /\ token.signed = [payload |-> token.payload, iat |-> token.iat, exp |-> token.exp]

\* variant of jwt.verify that does not look at exp; C12 must not hold of it
JwtVerifyIgnoringExpiry(token, secret) ==
  IF ~token.wellFormed THEN [error |-> "JsonWebTokenError", decoded |-> NULL]
  ELSE IF ~SignatureValid(token, secret) THEN [error |-> "JsonWebTokenError", decoded |-> NULL]
  ELSE [error |-> "", decoded |-> token.payload]

\* jwt.verify(token, secret): the decoded payload or the error thrown; the
\* structure is checked first, then the signature, then the expiry
JwtVerify(token, secret) ==
  IF ~token.wellFormed THEN [error |-> "JsonWebTokenError", decoded |-> NULL]
  ELSE IF ~SignatureValid(token, secret) THEN [error |-> "JsonWebTokenError", decoded |-> NULL]
  ELSE IF now >= token.exp THEN [error |-> "TokenExpiredError", decoded |-> NULL]
  ELSE [error |-> "", decoded |-> token.payload]

(***************************************************************************)
(* Requests and outcomes.                                                  *)
(***************************************************************************)
NoReq ==
  [op |-> "", email |-> "", password |-> NULL, token |-> NULL,
   user |-> NULL, newToken |-> NULL, expires |-> NULL]

NoRes ==
  [proc |-> 0, op |-> "", email |-> "", token |-> NULL, cookie |-> NoJwt,
   ok |-> FALSE, cause |-> "", error |-> "", status |-> 0, body |-> "", minutes |-> 0,
   view |-> NULL, jwt |-> NoJwt, setCookie |-> NoJwt, clearCookie |-> FALSE,
   nextCalled |-> FALSE, user |-> NULL,
   authorization |-> NULL, nextCalls |-> 0, setOptions |-> NULL, clearOptions |-> NULL,
   evicted |-> FALSE]

\* auth_controller.ts handleServiceError
authHandleServiceError(error) ==
  IF error = "EMAIL_ALREADY_EXISTS"
  THEN [status |-> 409, body |-> "Email já cadastrado, por favor use outro Email"]
  ELSE IF error = "INVALID_CREDENTIALS"
  THEN [status |-> 401, body |-> "Credenciais inválidas"]
  ELSE [status |-> 500, body |-> "Erro interno do servidor"]

\* an Error message as its parts between colons: `RATE_LIMIT:${timeLeft}`
RateLimitError(timeLeft) == <<"RATE_LIMIT", timeLeft>>

\* variant of password.controller.ts handleServiceError that compares the
\* whole message with "RATE_LIMIT"; C22 must not hold of it
passwordHandleServiceErrorExact(message) ==
  IF message = <<"RATE_LIMIT">>
  THEN [status |-> 429, body |-> "Aguarde N minutos antes de solicitar novo link",
        minutes |-> 0]
  ELSE IF message = <<"INVALID_TOKEN">>
  THEN [status |-> 401, body |-> "Token inválido ou expirado", minutes |-> 0]
  ELSE [status |-> 500, minutes |-> 0,
        body |-> "Erro ao processar solicitação. Tente novamente mais tarde."]

\* password.controller.ts handleServiceError, on the message as its parts
\* between colons: message.startsWith("RATE_LIMIT:") and split(":")[1], which
\* fills the N of the body
passwordHandleServiceError(message) ==
  IF Len(message) >= 2 /\ message[1] = "RATE_LIMIT"
  THEN [status |-> 429, body |-> "Aguarde N minutos antes de solicitar novo link",
        minutes |-> message[2]]
  ELSE IF message = <<"INVALID_TOKEN">>
  THEN [status |-> 401, body |-> "Token inválido ou expirado", minutes |-> 0]
  ELSE [status |-> 500, minutes |-> 0,
        body |-> "Erro ao processar solicitação. Tente novamente mais tarde."]

\* const { password: _, ...userWithoutPassword } = user
WithoutPassword(user) == [f \in (DOMAIN user) \ {"password"} |-> user[f]]

\* Math.ceil(a / b) for b > 0
Ceil(a, b) == -((-a) \div b)

\* the response record of request slot p
Response(p, r, fields) ==
  [f \in DOMAIN NoRes |->
     IF f \in DOMAIN fields THEN fields[f]
     ELSE IF f = "proc" THEN p
     ELSE IF f \in {"op", "email", "token"} THEN r[f]
     ELSE NoRes[f]]

\* a thrown service error, mapped by the controller's catch block
Failure(p, r, cause, error, resp) ==
  Response(p, r, [cause |-> cause, error |-> error, status |-> resp.status, body |-> resp.body])

\* a new request is received and runs in the first free slot p
Accept(p) ==
  /\ server = "listening"
  /\ pc[p] = "idle"
  /\ \A q \in Procs : q < p => pc[q] # "idle"
  /\ calls < MaxCalls
  /\ calls' = calls + 1

\* the handler of slot p returns: its locals go out of scope
Finish(p, r) ==
  /\ pc' = [pc EXCEPT ![p] = "idle"]
  /\ req' = [req EXCEPT ![p] = NoReq]
  /\ res' = r

\* the handler of slot p suspends at the await named label
Await(p, label, r) ==
  /\ pc' = [pc EXCEPT ![p] = label]
  /\ req' = [req EXCEPT ![p] = r]
  /\ res' = NoRes

(***************************************************************************)
(* The session cookie (authCookie.util.ts) and the browser that keeps it.  *)
(***************************************************************************)
\* setAuthCookie: the cookie response.cookie("token", token, {...}) attaches
setAuthCookie(token) ==
  [name |-> "token", value |-> token, httpOnly |-> TRUE, secure |-> isProduction,
   sameSite |-> "strict", path |-> "/", maxAge |-> CookieMaxAge]

\* variant of clearAuthCookie that names another path; C15 must not hold of it
clearAuthCookieOtherPath ==
  [name |-> "token", httpOnly |-> TRUE, secure |-> isProduction,
   sameSite |-> "strict", path |-> "/auth"]

\* clearAuthCookie: the cookie response.clearCookie("token", {...}) targets
clearAuthCookie ==
  [name |-> "token", httpOnly |-> TRUE, secure |-> isProduction,
   sameSite |-> "strict", path |-> "/"]

\* the browser holds no cookie named token
NoCookie == [none |-> TRUE]

\* the browser applies a Set-Cookie: it keeps the cookie until maxAge has passed
StoreCookie(cookie) ==
  [name |-> cookie.name, value |-> cookie.value, httpOnly |-> cookie.httpOnly,
   secure |-> cookie.secure, sameSite |-> cookie.sameSite, path |-> cookie.path,
   expires |-> now + cookie.maxAge]

\* the browser applies a cleared cookie: it drops the cookie it holds when
\* name and path are the ones the response names
EvictCookie(held, cleared) ==
  IF held # NoCookie /\ held.name = cleared.name /\ held.path = cleared.path
  THEN NoCookie
  ELSE held

\* the token the browser sends with a request: the cookie it holds, until
\* the cookie's own expiry
JarCookies == IF jar # NoCookie /\ now < jar.expires THEN {jar.value} ELSE {}

(***************************************************************************)
(* POST /auth/register: register -> registerUser                           *)
(***************************************************************************)
\* step 1: findUserByEmail; an existing user ends the call
RegisterFind(p, email, password) ==
  /\ Accept(p)
  /\ LET r == [NoReq EXCEPT !.op = "register", !.email = email, !.password = password]
         existingUser == findUserByEmail(email)
     IN IF existingUser # NULL
        THEN Finish(p, Failure(p, r, "find", "EMAIL_ALREADY_EXISTS",
                               authHandleServiceError("EMAIL_ALREADY_EXISTS")))
        ELSE Await(p, "registerCreate", r)
  /\ UNCHANGED <<users, now, nextToken, outbox, consumed, env, server, script, limiter, jar, lastPassword>>

\* variant of RegisterCreateError that rethrows the store's error as it came;
\* C8 must not hold of it
RegisterCreateErrorRethrown(code) == code

\* what registerUser throws when createUser fails with the given code
RegisterCreateError(code) == IF code = "P2002" THEN "EMAIL_ALREADY_EXISTS" ELSE code

\* steps 2-5: bcrypt.hash, createUser, generateToken, strip the password, respond 201
RegisterCreate(p) ==
  /\ pc[p] = "registerCreate"
  /\ LET data == [name |-> "name", email |-> req[p].email,
                  password |-> BcryptHash(req[p].password, BcryptRounds),
                  cep |-> "cep", telefone |-> "telefone"]
         newUser == createUser(data)
     IN IF UniqueViolation(data.email)
        THEN /\ Finish(p, Failure(p, req[p], "create", RegisterCreateError("P2002"),
                                  authHandleServiceError(RegisterCreateError("P2002"))))
             /\ UNCHANGED <<users, lastPassword>>
        ELSE /\ users' = users \cup {newUser}
             /\ lastPassword' = [lastPassword EXCEPT ![data.email] = req[p].password]
             /\ Finish(p, Response(p, req[p],
                     [ok |-> TRUE, status |-> 201, body |-> "Usuário criado com sucesso",
                      view |-> WithoutPassword(newUser),
                      jwt |-> generateToken(newUser.id, newUser.email)]))
  /\ UNCHANGED <<calls, now, nextToken, outbox, consumed, env, server, script, limiter, jar>>

(***************************************************************************)
(* POST /auth/login: login -> loginUser                                    *)
(***************************************************************************)
\* variant of LoginFind that reports an unknown email with an error of its
\* own; C7 must not hold of it
LoginFindRevealing(p, email, password) ==
  /\ Accept(p)
  /\ LET r == [NoReq EXCEPT !.op = "login", !.email = email, !.password = password]
         user == findUserByEmailWithPassword(email)
     IN IF user = NULL
        THEN Finish(p, Failure(p, r, "unknown", "USER_NOT_FOUND",
                               authHandleServiceError("USER_NOT_FOUND")))
        ELSE Await(p, "loginCompare", [r EXCEPT !.user = user])
  /\ UNCHANGED <<users, now, nextToken, outbox, consumed, env, server, script, limiter, jar, lastPassword>>

\* steps 1-2: findUserByEmailWithPassword; an unknown email ends the call
LoginFind(p, email, password) ==
  /\ Accept(p)
  /\ LET r == [NoReq EXCEPT !.op = "login", !.email = email, !.password = password]
         user == findUserByEmailWithPassword(email)
     IN IF user = NULL
        THEN Finish(p, Failure(p, r, "unknown", "INVALID_CREDENTIALS",
                               authHandleServiceError("INVALID_CREDENTIALS")))
        ELSE Await(p, "loginCompare", [r EXCEPT !.user = user])
  /\ UNCHANGED <<users, now, nextToken, outbox, consumed, env, server, script, limiter, jar, lastPassword>>

\* variant of LoginCompare that, when the password verified, stores a hash of
\* it made with one more round; C36 must not hold of it
LoginCompareRehashing(p) ==
  /\ pc[p] = "loginCompare"
  /\ LET user == req[p].user
         isPasswordValid == BcryptCompare(req[p].password, user.password)
         token == generateToken(user.id, user.email)
     IN IF ~isPasswordValid
        THEN /\ Finish(p, Failure(p, req[p], "mismatch", "INVALID_CREDENTIALS",
                                  authHandleServiceError("INVALID_CREDENTIALS")))
             /\ UNCHANGED <<jar, users>>
        ELSE /\ Finish(p, Response(p, req[p],
                        [ok |-> TRUE, status |-> 200, view |-> WithoutPassword(user),
                         setCookie |-> token, setOptions |-> setAuthCookie(token)]))
             /\ jar' = StoreCookie(setAuthCookie(token))
             /\ users' = updateUserPassword(
                            [email |-> user.email,
                             password |-> BcryptHash(req[p].password, BcryptRounds + 1)])
  /\ UNCHANGED <<calls, now, nextToken, outbox, consumed, env, server, script, limiter, lastPassword>>

\* variant of LoginCompare that sets the cookie before it compares the
\* password; C31 must not hold of it
LoginCompareCookieFirst(p) ==
  /\ pc[p] = "loginCompare"
  /\ LET user == req[p].user
         isPasswordValid == BcryptCompare(req[p].password, user.password)
         token == generateToken(user.id, user.email)
     IN /\ jar' = StoreCookie(setAuthCookie(token))
        /\ IF ~isPasswordValid
           THEN Finish(p, [Failure(p, req[p], "mismatch", "INVALID_CREDENTIALS",
                                   authHandleServiceError("INVALID_CREDENTIALS"))
                             EXCEPT !.setCookie = token, !.setOptions = setAuthCookie(token)])
           ELSE Finish(p, Response(p, req[p],
                        [ok |-> TRUE, status |-> 200, view |-> WithoutPassword(user),
                         setCookie |-> token, setOptions |-> setAuthCookie(token)]))
  /\ UNCHANGED <<calls, users, now, nextToken, outbox, consumed, env, server, script, limiter, lastPassword>>

\* steps 3-6: bcrypt.compare, generateToken, strip the password, set the
\* cookie, which the browser that sent the login keeps
LoginCompare(p) ==
  /\ pc[p] = "loginCompare"
  /\ LET user == req[p].user
         isPasswordValid == BcryptCompare(req[p].password, user.password)
         token == generateToken(user.id, user.email)
     IN IF ~isPasswordValid
        THEN /\ Finish(p, Failure(p, req[p], "mismatch", "INVALID_CREDENTIALS",
                                  authHandleServiceError("INVALID_CREDENTIALS")))
             /\ UNCHANGED jar
        ELSE /\ Finish(p, Response(p, req[p],
                        [ok |-> TRUE, status |-> 200, view |-> WithoutPassword(user),
                         setCookie |-> token, setOptions |-> setAuthCookie(token)]))
             /\ jar' = StoreCookie(setAuthCookie(token))
  /\ UNCHANGED <<calls, users, now, nextToken, outbox, consumed, env, server, script, limiter, lastPassword>>

(***************************************************************************)
(* passwordResetLimiter (express-rate-limit with its memory store), which  *)
(* the password routes mount in front of validation and controller.        *)
(***************************************************************************)
\* windowMs: 15 * 60 * 1000
LimiterWindowMinutes == 15
LimiterWindow == LimiterWindowMinutes * TicksPerMinute
\* max: 3
LimiterMax == 3

\* the store's record of a client address it has not seen, and the history
\* of the instants at which its requests reached a controller
NoHits == [totalHits |-> 0, resetTime |-> 0, reached |-> <<>>]

\* the store's increment: a record whose resetTime has passed starts again,
\* with a window of windowMs from this request
increment(client) ==
  IF client.resetTime <= now
  THEN [client EXCEPT !.totalHits = 1, !.resetTime = now + LimiterWindow]
  ELSE [client EXCEPT !.totalHits = @ + 1]

\* variant of TooManyRequests that lets one request more through; C35 must
\* not hold of it
TooManyRequestsAfterOneMore(client) == client.totalHits > LimiterMax + 1

\* totalHits > max: the request is answered 429 and next() is not called
TooManyRequests(client) == client.totalHits > LimiterMax

\* the limiter's 429 answer to request slot p
LimiterRejects(p, route) ==
  /\ Accept(p)
  /\ Finish(p, Response(p, [NoReq EXCEPT !.op = route],
                        [cause |-> "limiter", status |-> 429,
                         body |-> "Muitas tentativas. Tente novamente em 15 minutos."]))
  /\ UNCHANGED <<users, now, nextToken, outbox, consumed, env, server, script, jar, lastPassword>>

\* validateForgotPassword / validateResetPassword: the 400 answer to a body
\* that fails validation
ValidationRejects(p, route, message) ==
  /\ Accept(p)
  /\ Finish(p, Response(p, [NoReq EXCEPT !.op = route],
                        [cause |-> "validation", status |-> 400, body |-> message]))
  /\ UNCHANGED <<users, now, nextToken, outbox, consumed, env, server, script, jar, lastPassword>>

(***************************************************************************)
(* POST /forgot-password: forgotPassword -> requestPasswordReset           *)
(***************************************************************************)
\* variant of RateLimited that also limits at the instant of expiry; C24 must
\* not hold of it
RateLimitedInclusive(user) ==
  user.resetTokenExpiry # NULL /\ user.resetTokenExpiry.time >= now

\* user.resetTokenExpiry && user.resetTokenExpiry > new Date()
RateLimited(user) == user.resetTokenExpiry # NULL /\ user.resetTokenExpiry.time > now

\* variant of TimeLeft that rounds down; C4 must not hold of it
TimeLeftFloor(user) == (user.resetTokenExpiry.time - now) \div TicksPerMinute

\* Math.ceil((user.resetTokenExpiry.getTime() - Date.now()) / 1000 / 60)
TimeLeft(user) == Ceil(user.resetTokenExpiry.time - now, TicksPerMinute)

\* new Date(Date.now() + 15 * 60 * 1000)
ResetExpiry == DateAt(now + ResetWindow)

\* the message requestPasswordReset returns when the email has no account
UnknownEmailMessage == "Se o email existir, enviaremos instruções"

\* the message requestPasswordReset returns after the email was sent
EmailSentMessage == "Email enviado com sucesso"

\* variant of ForgotFind that, when the rate limit applies, starts the
\* user's 15 minutes again; C27 must not hold of it
ForgotFindExtending(p, email) ==
  /\ Accept(p)
  /\ LET r == [NoReq EXCEPT !.op = "forgot", !.email = email]
         user == findUserByEmailForReset(email)
     IN IF user = NULL
        THEN /\ Finish(p, Response(p, r, [ok |-> TRUE, cause |-> "unknown", status |-> 200,
                                          body |-> UnknownEmailMessage]))
             /\ UNCHANGED <<nextToken, users>>
        ELSE IF RateLimited(user)
        THEN /\ LET resp == passwordHandleServiceError(RateLimitError(TimeLeft(user))) IN
                  Finish(p, [Failure(p, r, "pending", "RATE_LIMIT", resp)
                               EXCEPT !.minutes = resp.minutes])
             /\ users' = updateResetToken([userId |-> user.id, token |-> user.resetToken,
                                           expires |-> ResetExpiry])
             /\ UNCHANGED nextToken
        ELSE /\ nextToken <= MaxTokens
             /\ nextToken' = nextToken + 1
             /\ Await(p, "forgotUpdate",
                      [r EXCEPT !.user = user, !.newToken = HexToken(nextToken),
                                !.expires = ResetExpiry])
             /\ UNCHANGED users
  /\ UNCHANGED <<now, outbox, consumed, env, server, script, limiter, jar, lastPassword>>

\* findUserByEmailForReset, then the code up to the next await: the unknown
\* email answer (after the 100 ms delay), the rate limit, the new token
forgotPassword(p, email) ==
  /\ Accept(p)
  /\ LET r == [NoReq EXCEPT !.op = "forgot", !.email = email]
         user == findUserByEmailForReset(email)
     IN IF user = NULL
        THEN /\ Finish(p, Response(p, r, [ok |-> TRUE, cause |-> "unknown", status |-> 200,
                                          body |-> UnknownEmailMessage]))
             /\ UNCHANGED nextToken
        ELSE IF RateLimited(user)
        THEN /\ LET resp == passwordHandleServiceError(RateLimitError(TimeLeft(user))) IN
                  Finish(p, [Failure(p, r, "pending", "RATE_LIMIT", resp)
                               EXCEPT !.minutes = resp.minutes])
             /\ UNCHANGED nextToken
        ELSE /\ nextToken <= MaxTokens
             /\ nextToken' = nextToken + 1
             /\ Await(p, "forgotUpdate",
                      [r EXCEPT !.user = user, !.newToken = HexToken(nextToken),
                                !.expires = ResetExpiry])
  /\ UNCHANGED <<users, now, outbox, consumed, env, server, script, jar, lastPassword>>

\* POST /forgot-password from a client address the limiter lets through
ForgotFind(p, email) ==
  /\ forgotPassword(p, email)
  /\ UNCHANGED limiter

\* await passwordRepository.updateResetToken({userId, token, expires})
ForgotUpdate(p) ==
  /\ pc[p] = "forgotUpdate"
  /\ users' = updateResetToken([userId |-> req[p].user.id, token |-> req[p].newToken,
                                expires |-> req[p].expires])
  /\ Await(p, "forgotSend", req[p])
  /\ UNCHANGED <<calls, now, nextToken, outbox, consumed, env, server, script, limiter, jar, lastPassword>>

\* variant of ForgotSend that, when the dispatch fails, goes back to store a
\* token and dispatch again; C23 must not hold of it
ForgotSendRetrying(p, delivered) ==
  /\ pc[p] = "forgotSend"
  /\ IF delivered
     THEN /\ outbox' = outbox \cup {[to |-> req[p].email, token |-> req[p].newToken]}
          /\ Finish(p, Response(p, req[p], [ok |-> TRUE, cause |-> "sent", status |-> 200,
                                            body |-> EmailSentMessage]))
     ELSE /\ UNCHANGED outbox
          /\ Await(p, "forgotUpdate", req[p])
  /\ UNCHANGED <<calls, users, now, nextToken, consumed, env, server, script, limiter, jar, lastPassword>>

\* variant of ForgotSend whose caller swallows the dispatcher's error and
\* answers as if the email had been sent; C21 must not hold of it
ForgotSendSwallowing(p, delivered) ==
  /\ pc[p] = "forgotSend"
  /\ outbox' = IF delivered
               THEN outbox \cup {[to |-> req[p].email, token |-> req[p].newToken]}
               ELSE outbox
  /\ Finish(p, Response(p, req[p], [ok |-> TRUE, cause |-> "sent", status |-> 200,
                                    body |-> EmailSentMessage]))
  /\ UNCHANGED <<calls, users, now, nextToken, consumed, env, server, script, limiter, jar, lastPassword>>

\* variant of ForgotSend that, when the dispatch fails, takes the token and
\* its expiry out of the record again; C28 must not hold of it
ForgotSendRollingBack(p, delivered) ==
  /\ pc[p] = "forgotSend"
  /\ IF delivered
     THEN /\ outbox' = outbox \cup {[to |-> req[p].email, token |-> req[p].newToken]}
          /\ Finish(p, Response(p, req[p], [ok |-> TRUE, cause |-> "sent", status |-> 200,
                                            body |-> EmailSentMessage]))
          /\ UNCHANGED users
     ELSE /\ UNCHANGED outbox
          /\ users' = updateResetToken([userId |-> req[p].user.id, token |-> NULL,
                                        expires |-> NULL])
          /\ Finish(p, Failure(p, req[p], "mail", "Falha ao enviar email",
                               passwordHandleServiceError(<<"Falha ao enviar email">>)))
  /\ UNCHANGED <<calls, now, nextToken, consumed, env, server, script, limiter, jar, lastPassword>>

\* await sendPasswordResetEmail(email, token, frontendUrl): it throws when the
\* provider reports an error
ForgotSend(p, delivered) ==
  /\ pc[p] = "forgotSend"
  /\ IF delivered
     THEN /\ outbox' = outbox \cup {[to |-> req[p].email, token |-> req[p].newToken]}
          /\ Finish(p, Response(p, req[p], [ok |-> TRUE, cause |-> "sent", status |-> 200,
                                            body |-> EmailSentMessage]))
     ELSE /\ UNCHANGED outbox
          /\ Finish(p, Failure(p, req[p], "mail", "Falha ao enviar email",
                               passwordHandleServiceError(<<"Falha ao enviar email">>)))
  /\ UNCHANGED <<calls, users, now, nextToken, consumed, env, server, script, limiter, jar, lastPassword>>

(***************************************************************************)
(* POST /reset-password: resetPassword -> resetPasswordWithToken           *)
(***************************************************************************)
\* findUserByValidToken; no match ends the call
resetPassword(p, token, newPassword) ==
  /\ Accept(p)
  /\ LET r == [NoReq EXCEPT !.op = "reset", !.token = token, !.password = newPassword]
         user == findUserByValidToken(token)
     IN IF user = NULL
        THEN Finish(p, Failure(p, r, "nomatch", "INVALID_TOKEN",
                               passwordHandleServiceError(<<"INVALID_TOKEN">>)))
        ELSE Await(p, "resetUpdate", [r EXCEPT !.user = user])
  /\ UNCHANGED <<users, now, nextToken, outbox, consumed, env, server, script, jar, lastPassword>>

\* POST /reset-password from a client address the limiter lets through
ResetFind(p, token, newPassword) ==
  /\ resetPassword(p, token, newPassword)
  /\ UNCHANGED limiter

\* bcrypt.hash(newPassword, 12), updatePasswordAndClearToken, respond
ResetUpdate(p) ==
  /\ pc[p] = "resetUpdate"
  /\ users' = updatePasswordAndClearToken(
                 [userId |-> req[p].user.id,
                  hashedPassword |-> BcryptHash(req[p].password, BcryptRounds)])
  /\ consumed' = consumed \cup {req[p].token}
  /\ lastPassword' = [lastPassword EXCEPT ![req[p].user.email] = req[p].password]
  /\ Finish(p, Response(p, req[p], [ok |-> TRUE, status |-> 200,
                                    body |-> "Senha redefinida com sucesso"]))
  /\ UNCHANGED <<calls, now, nextToken, outbox, env, server, script, limiter, jar>>

\* body("email").isEmail(), of the addresses of the model and the empty string
isEmail(email) == email # ""

\* body("token").isLength({min: 64, max: 64}): a token of the 64 hex digits
\* that 32 random bytes give, or a missing one
isHexToken(token) == token # NULL

\* POST /forgot-password from a client address the limiter counts:
\* passwordResetLimiter, validateForgotPassword, forgotPassword
LimitedForgotPassword(p, email) ==
  LET client == increment(limiter) IN
    IF TooManyRequests(client)
    THEN /\ limiter' = client
         /\ LimiterRejects(p, "forgot")
    ELSE IF ~isEmail(email)
    THEN /\ limiter' = client
         /\ ValidationRejects(p, "forgot", "Email inválido")
    ELSE /\ limiter' = [client EXCEPT !.reached = Append(@, now)]
         /\ forgotPassword(p, email)

\* POST /reset-password from that client address: passwordResetLimiter,
\* validateResetPassword, resetPassword
LimitedResetPassword(p, token, newPassword) ==
  LET client == increment(limiter) IN
    IF TooManyRequests(client)
    THEN /\ limiter' = client
         /\ LimiterRejects(p, "reset")
    ELSE IF ~isHexToken(token)
    THEN /\ limiter' = client
         /\ ValidationRejects(p, "reset", "Token inválido")
    ELSE /\ limiter' = [client EXCEPT !.reached = Append(@, now)]
         /\ resetPassword(p, token, newPassword)

(***************************************************************************)
(* The session gate (auth.middleware.ts) in its cookie version and in its  *)
(* Authorization header version, optionalAuth in both versions, and the    *)
(* routes behind the gate: PATCH /auth/update-password, POST /auth/logout. *)
(***************************************************************************)
\* variant of HasIdentity that asks for the userId alone; C10 must not hold
\* of it
HasUserId(decoded) == decoded # NULL /\ "userId" \in DOMAIN decoded

\* "userId" in decoded && "email" in decoded
HasIdentity(decoded) ==
  decoded # NULL /\ "userId" \in DOMAIN decoded /\ "email" \in DOMAIN decoded

\* variant of authenticateToken that reports every error of jwt.verify as an
\* invalid token; C11 must not hold of it
authenticateTokenOneMessage(cookie) ==
  IF cookie = NoJwt
  THEN [nextCalled |-> FALSE, user |-> NULL, status |-> 401,
        body |-> "Token de autenticação não fornecido"]
  ELSE LET v == JwtVerify(cookie, MiddlewareSecret) IN
       IF v.error # ""
       THEN [nextCalled |-> FALSE, user |-> NULL, status |-> 401, body |-> "Token inválido"]
       ELSE IF HasIdentity(v.decoded)
       THEN [nextCalled |-> TRUE, user |-> v.decoded, status |-> 0, body |-> ""]
       ELSE [nextCalled |-> FALSE, user |-> NULL, status |-> 401, body |-> "Token inválido"]

\* variant of authenticateToken that also asks the store for the user of the
\* token; C20 must not hold of it
authenticateTokenOfStoredUser(cookie) ==
  IF cookie = NoJwt
  THEN [nextCalled |-> FALSE, user |-> NULL, status |-> 401,
        body |-> "Token de autenticação não fornecido"]
  ELSE LET v == JwtVerify(cookie, MiddlewareSecret) IN
       IF v.error = "TokenExpiredError"
       THEN [nextCalled |-> FALSE, user |-> NULL, status |-> 401, body |-> "Token expirado"]
       ELSE IF v.error = "JsonWebTokenError"
       THEN [nextCalled |-> FALSE, user |-> NULL, status |-> 401, body |-> "Token inválido"]
       ELSE IF HasIdentity(v.decoded) /\ findUserByEmail(v.decoded.email) # NULL
       THEN [nextCalled |-> TRUE, user |-> v.decoded, status |-> 0, body |-> ""]
       ELSE [nextCalled |-> FALSE, user |-> NULL, status |-> 401, body |-> "Token inválido"]

\* authenticateToken: what it answers, or that it called next() with request.user
authenticateToken(cookie) ==
  IF cookie = NoJwt
  THEN [nextCalled |-> FALSE, user |-> NULL, status |-> 401,
        body |-> "Token de autenticação não fornecido"]
  ELSE LET v == JwtVerify(cookie, MiddlewareSecret) IN
       IF v.error = "TokenExpiredError"
       THEN [nextCalled |-> FALSE, user |-> NULL, status |-> 401, body |-> "Token expirado"]
       ELSE IF v.error = "JsonWebTokenError"
       THEN [nextCalled |-> FALSE, user |-> NULL, status |-> 401, body |-> "Token inválido"]
       ELSE IF HasIdentity(v.decoded)
       THEN [nextCalled |-> TRUE, user |-> v.decoded, status |-> 0, body |-> ""]
       ELSE [nextCalled |-> FALSE, user |-> NULL, status |-> 401, body |-> "Token inválido"]

\* an Authorization header: the parts authHeader.split(" ") gives
AuthHeader(parts) == [parts |-> parts]

\* variant of IsBearer that is case sensitive; C19 must not hold of it
IsLowercaseBearer(scheme) == scheme = "bearer"

\* /^Bearer$/i.test(scheme)
IsBearer(scheme) == scheme \in {"Bearer", "bearer", "BEARER"}

\* authenticateToken, Authorization header version
authenticateTokenHeader(authHeader) ==
  IF authHeader = NULL
  THEN [nextCalled |-> FALSE, user |-> NULL, status |-> 401,
        body |-> "Token de autenticação não fornecido"]
  ELSE IF Len(authHeader.parts) # 2
  THEN [nextCalled |-> FALSE, user |-> NULL, status |-> 401,
        body |-> "Formato de token inválido"]
  ELSE LET scheme == authHeader.parts[1]
           token == authHeader.parts[2]
       IN IF scheme = "" \/ token = NoJwt
          THEN [nextCalled |-> FALSE, user |-> NULL, status |-> 401,
                body |-> "Formato de token inválido"]
          ELSE IF ~IsBearer(scheme)
          THEN [nextCalled |-> FALSE, user |-> NULL, status |-> 401,
                body |-> "Formato de token inválido"]
          ELSE LET v == JwtVerify(token, MiddlewareSecret) IN
               IF v.error = "TokenExpiredError"
               THEN [nextCalled |-> FALSE, user |-> NULL, status |-> 401,
                     body |-> "Token expirado"]
               ELSE IF v.error = "JsonWebTokenError"
               THEN [nextCalled |-> FALSE, user |-> NULL, status |-> 401,
                     body |-> "Token inválido"]
               ELSE IF HasIdentity(v.decoded)
               THEN [nextCalled |-> TRUE, user |-> v.decoded, status |-> 0, body |-> ""]
               ELSE [nextCalled |-> FALSE, user |-> NULL, status |-> 401,
                     body |-> "Token inválido"]

\* variant of optionalAuth that answers 401 to a token it cannot verify; C14
\* must not hold of it
optionalAuthRejecting(cookie) ==
  IF cookie = NoJwt
  THEN [nextCalls |-> 1, user |-> NULL, status |-> 0]
  ELSE LET v == JwtVerify(cookie, MiddlewareSecret) IN
       IF v.error = "" /\ HasIdentity(v.decoded)
       THEN [nextCalls |-> 1, user |-> v.decoded, status |-> 0]
       ELSE [nextCalls |-> 0, user |-> NULL, status |-> 401]

\* optionalAuth, cookie version: the calls of next() it makes, request.user
\* after it, and whether it wrote a response
optionalAuth(cookie) ==
  IF cookie = NoJwt
  THEN [nextCalls |-> 1, user |-> NULL, status |-> 0]
  ELSE LET v == JwtVerify(cookie, MiddlewareSecret) IN
       IF v.error = "" /\ HasIdentity(v.decoded)
       THEN [nextCalls |-> 1, user |-> v.decoded, status |-> 0]
       ELSE [nextCalls |-> 1, user |-> NULL, status |-> 0]

\* optionalAuth, Authorization header version
optionalAuthHeader(authHeader) ==
  IF authHeader = NULL
  THEN [nextCalls |-> 1, user |-> NULL, status |-> 0]
  ELSE IF /\ Len(authHeader.parts) = 2
          /\ authHeader.parts[1] # ""
          /\ authHeader.parts[2] # NoJwt
          /\ IsBearer(authHeader.parts[1])
  THEN LET v == JwtVerify(authHeader.parts[2], MiddlewareSecret) IN
       IF v.error = "" /\ HasIdentity(v.decoded)
       THEN [nextCalls |-> 1, user |-> v.decoded, status |-> 0]
       ELSE [nextCalls |-> 1, user |-> NULL, status |-> 0]
  ELSE [nextCalls |-> 1, user |-> NULL, status |-> 0]

\* the tokens a client may put in the cookie, each as it stands at the current
\* clock reading: none, a malformed string, and signed tokens that differ in
\* key, payload and remaining lifetime
Subject == [userId |-> 1, email |-> "a@x.com"]

\* a token signed for the payload with the key, with `left` ticks until its exp
JwtWith(payload, key, left) == JwtSign(payload, key, now + left - JwtLifetime, JwtLifetime)

Malformed == [JwtWith(Subject, JWT_SECRET, JwtLifetime) EXCEPT !.wellFormed = FALSE]

\* a signed token whose claims were rewritten afterwards: the signature stays
Rewritten(token, payload, exp) == [token EXCEPT !.payload = payload, !.exp = exp]

Cookies ==
  {NoJwt, Malformed,
   JwtWith(Subject, JWT_SECRET, JwtLifetime),
   JwtWith(Subject, JWT_SECRET, 1),
   JwtWith(Subject, JWT_SECRET, 0),
   JwtWith(Subject, "other key", JwtLifetime),
   JwtWith(Subject, "other key", 0),
   JwtWith([userId |-> 1], JWT_SECRET, JwtLifetime),
   JwtWith([email |-> "a@x.com"], JWT_SECRET, JwtLifetime)}

\* tokens made without the key or changed after signing: one signed with the
\* default key of jwt.util.ts, one whose payload and one whose exp were
\* rewritten
Forged ==
  {JwtWith(Subject, DefaultSecret, JwtLifetime),
   Rewritten(JwtWith(Subject, JWT_SECRET, JwtLifetime),
             [userId |-> 2, email |-> "b@x.com"], now + JwtLifetime),
   Rewritten(JwtWith(Subject, JWT_SECRET, 0), Subject, now + JwtLifetime)}

\* the cookies a request may carry: the browser's, or any of Cookies
Presented == Cookies \cup JarCookies

\* the cookies a request of the session model may carry
SessionPresented == Presented \cup Forged

\* the Authorization headers a request may carry: none, the browser's token
\* or another one behind Bearer, and headers of another shape
Headers ==
  {NULL}
  \cup {AuthHeader(<<"Bearer", c>>) :
           c \in JarCookies \cup {JwtWith(Subject, JWT_SECRET, 0),
                                  JwtWith(Subject, "other key", JwtLifetime)}}
  \cup {AuthHeader(<<"bearer", c>>) : c \in JarCookies}
  \cup {AuthHeader(<<"Basic", c>>) : c \in JarCookies}
  \cup {AuthHeader(<<"", c>>) : c \in JarCookies}
  \cup {AuthHeader(<<c>>) : c \in JarCookies}
  \cup {AuthHeader(<<"Bearer", c, "x">>) : c \in JarCookies}

\* what the gate of a route completes for request slot p
GateOutcome(p, route, cookie) ==
  LET gate == authenticateToken(cookie) IN
  Response(p, [NoReq EXCEPT !.op = route],
           [cookie |-> cookie, cause |-> "gate", nextCalled |-> gate.nextCalled,
            user |-> gate.user, status |-> gate.status, body |-> gate.body])

\* what the Authorization header version of the gate completes
HeaderGateOutcome(p, route, authHeader) ==
  LET gate == authenticateTokenHeader(authHeader) IN
  Response(p, [NoReq EXCEPT !.op = route],
           [authorization |-> authHeader, cause |-> "header gate",
            nextCalled |-> gate.nextCalled, user |-> gate.user,
            status |-> gate.status, body |-> gate.body])

\* PATCH /auth/update-password with a token the gate rejects
UpdatePasswordRejected(p, cookie) ==
  /\ Accept(p)
  /\ ~authenticateToken(cookie).nextCalled
  /\ Finish(p, GateOutcome(p, "update-password", cookie))
  /\ UNCHANGED <<users, now, nextToken, outbox, consumed, env, server, script, limiter, jar, lastPassword>>

\* PATCH /auth/update-password with a token the gate accepts: next() runs
\* updatePassword up to its first await
UpdatePasswordGate(p, cookie, email, newPassword) ==
  /\ Accept(p)
  /\ authenticateToken(cookie).nextCalled
  /\ pc' = [pc EXCEPT ![p] = "updatePassword"]
  /\ req' = [req EXCEPT ![p] = [NoReq EXCEPT !.op = "update-password", !.email = email,
                                            !.password = newPassword,
                                            !.user = authenticateToken(cookie).user]]
  /\ res' = GateOutcome(p, "update-password", cookie)
  /\ UNCHANGED <<users, now, nextToken, outbox, consumed, env, server, script, limiter, jar, lastPassword>>

\* updatePassword: bcrypt.hash, updateUserPassword; prisma update throws
\* P2025 when no record has the email
UpdatePassword(p) ==
  /\ pc[p] = "updatePassword"
  /\ IF findUserByEmail(req[p].email) = NULL
     THEN /\ UNCHANGED <<users, lastPassword>>
          /\ Finish(p, Response(p, req[p], [cause |-> "P2025", error |-> "P2025", status |-> 500,
                                            body |-> "Erro ao atualizar senha"]))
     ELSE /\ users' = updateUserPassword(
                         [email |-> req[p].email,
                          password |-> BcryptHash(req[p].password, BcryptRounds)])
          /\ lastPassword' = [lastPassword EXCEPT ![req[p].email] = req[p].password]
          /\ Finish(p, Response(p, req[p], [ok |-> TRUE, status |-> 200,
                                            body |-> "Senha atualizada com sucesso"]))
  /\ UNCHANGED <<calls, now, nextToken, outbox, consumed, env, server, script, limiter, jar>>

\* variant of Logout whose controller is mounted in front of the gate: the
\* cookie is cleared whatever the gate answers; C33 must not hold of it
LogoutClearingFirst(p, cookie) ==
  /\ Accept(p)
  /\ LET out == GateOutcome(p, "logout", cookie) IN
       /\ Finish(p, [out EXCEPT !.ok = out.nextCalled,
                                !.status = IF out.nextCalled THEN 200 ELSE out.status,
                                !.body = IF out.nextCalled
                                         THEN "Logout realizado com sucesso" ELSE out.body,
                                !.clearCookie = TRUE,
                                !.clearOptions = clearAuthCookie,
                                !.evicted = /\ cookie \in JarCookies
                                            /\ EvictCookie(jar, clearAuthCookie) = NoCookie])
       /\ jar' = IF cookie \in JarCookies THEN EvictCookie(jar, clearAuthCookie) ELSE jar
  /\ UNCHANGED <<users, now, nextToken, outbox, consumed, env, server, script, limiter, lastPassword>>

\* POST /auth/logout: authenticateToken, then logoutController; the browser
\* that sent its cookie applies the cleared cookie of the answer
Logout(p, cookie) ==
  /\ Accept(p)
  /\ LET out == GateOutcome(p, "logout", cookie) IN
       IF out.nextCalled
       THEN /\ Finish(p, [out EXCEPT !.ok = TRUE, !.status = 200,
                                     !.body = "Logout realizado com sucesso",
                                     !.clearCookie = TRUE,
                                     !.clearOptions = clearAuthCookie,
                                     !.evicted = /\ cookie \in JarCookies
                                                 /\ EvictCookie(jar, clearAuthCookie) = NoCookie])
            /\ jar' = IF cookie \in JarCookies THEN EvictCookie(jar, clearAuthCookie) ELSE jar
       ELSE /\ Finish(p, out)
            /\ UNCHANGED jar
  /\ UNCHANGED <<users, now, nextToken, outbox, consumed, env, server, script, limiter, lastPassword>>

\* POST /auth/logout behind the Authorization header version of the gate
LogoutBearer(p, authHeader) ==
  /\ Accept(p)
  /\ LET out == HeaderGateOutcome(p, "logout", authHeader) IN
       IF out.nextCalled
       THEN Finish(p, [out EXCEPT !.ok = TRUE, !.status = 200,
                                  !.body = "Logout realizado com sucesso",
                                  !.clearCookie = TRUE,
                                  !.clearOptions = clearAuthCookie])
       ELSE Finish(p, out)
  /\ UNCHANGED <<users, now, nextToken, outbox, consumed, env, server, script, limiter, jar, lastPassword>>

\* a request to a route behind optionalAuth (cookie version): the middleware
\* hands it on
OptionalAuth(p, cookie) ==
  /\ Accept(p)
  /\ LET out == optionalAuth(cookie) IN
       Finish(p, Response(p, [NoReq EXCEPT !.op = "optional"],
                          [cookie |-> cookie, cause |-> "optionalAuth",
                           nextCalled |-> out.nextCalls > 0, nextCalls |-> out.nextCalls,
                           user |-> out.user, status |-> out.status]))
  /\ UNCHANGED <<users, now, nextToken, outbox, consumed, env, server, script, limiter, jar, lastPassword>>

\* a request to a route behind optionalAuth (Authorization header version)
OptionalAuthBearer(p, authHeader) ==
  /\ Accept(p)
  /\ LET out == optionalAuthHeader(authHeader) IN
       Finish(p, Response(p, [NoReq EXCEPT !.op = "optional"],
                          [authorization |-> authHeader, cause |-> "optionalAuth header",
                           nextCalled |-> out.nextCalls > 0, nextCalls |-> out.nextCalls,
                           user |-> out.user, status |-> out.status]))
  /\ UNCHANGED <<users, now, nextToken, outbox, consumed, env, server, script, limiter, jar, lastPassword>>

(***************************************************************************)
(* update-all-passwords.ts: the script that hashes the passwords the table *)
(* still holds in clear.  It is a process of its own, next to the server,  *)
(* and one run is findMany, a loop over what findMany returned with two    *)
(* awaits per rewritten user, and $disconnect.                             *)
(***************************************************************************)
\* number of runs of the script in one behaviour
MaxRuns == 2

\* bcrypt cost the script hashes with
MigrationRounds == 10

\* passwords stored before hashing was introduced: one like any other, and
\* one whose text itself begins with the characters $2b$
ClearPasswords == {Password("Abc12345!", ""), Password("$2b$Abc12345!", "")}

\* what the password column holds when the script is first run: clear text,
\* or a hash written by registerUser
StoredPasswords ==
  ClearPasswords \cup {BcryptHash(Password("Abc12345!", ""), BcryptRounds)}

\* the texts of the model that begin with the given characters
TextsStartingWith(prefix) == IF prefix = "$2b$" THEN {"$2b$Abc12345!"} ELSE {}

\* String.prototype.startsWith on a stored password: a bcrypt hash begins
\* with its version tag, a clear text with its own first characters
startsWith(password, prefix) ==
  IF "alg" \in DOMAIN password
  THEN password.alg = prefix
  ELSE password.first72 \in TextsStartingWith(prefix)

\* variant of passwordIsHashed that recognises a bcrypt hash as such, whatever
\* a clear text begins with; C37 must not hold of it
passwordIsBcryptHash(user) == "alg" \in DOMAIN user.password

\* the test of the loop: user.password.startsWith("$2b$")
passwordIsHashed(user) == startsWith(user.password, "$2b$")

\* prisma.user.findMany({select: {email, password}}): the rows, by id
findMany ==
  [i \in 1..Cardinality(users) |->
     LET u == CHOOSE u \in users : u.id = i
     IN [email |-> u.email, password |-> u.password]]

\* no run of the script in progress, none completed
NotRunning ==
  [pc |-> "idle", found |-> <<>>, i |-> 0, hashedPassword |-> NULL, runs |-> 0]

\* the script is started: findMany
MigrateFind ==
  /\ script.pc = "idle"
  /\ script.runs < MaxRuns
  /\ script' = [script EXCEPT !.pc = "loop", !.found = findMany, !.i = 1]
  /\ res' = NoRes
  /\ UNCHANGED <<users, now, nextToken, outbox, consumed, pc, req, calls,
                  env, server, limiter, jar, lastPassword>>

\* one iteration of the loop up to its first await: a password that starts
\* with $2b$ is skipped, any other is hashed
MigrateHash ==
  /\ script.pc = "loop"
  /\ script.i <= Len(script.found)
  /\ LET user == script.found[script.i]
     IN IF ~ passwordIsHashed(user)
        THEN script' = [script EXCEPT !.pc = "update",
                          !.hashedPassword = BcryptHash(user.password, MigrationRounds)]
        ELSE script' = [script EXCEPT !.i = @ + 1]
  /\ res' = NoRes
  /\ UNCHANGED <<users, now, nextToken, outbox, consumed, pc, req, calls,
                  env, server, limiter, jar, lastPassword>>

\* the rest of the iteration: prisma.user.update where email (the row is
\* there: nothing in the repository deletes a user or changes an email)
MigrateUpdate ==
  /\ script.pc = "update"
  /\ LET user == script.found[script.i]
     IN /\ users' = {IF u.email = user.email
                     THEN [u EXCEPT !.password = script.hashedPassword]
                     ELSE u : u \in users}
        /\ script' = [script EXCEPT !.pc = "loop", !.i = @ + 1,
                        !.hashedPassword = NULL]
  /\ res' = NoRes
  /\ UNCHANGED <<now, nextToken, outbox, consumed, pc, req, calls,
                  env, server, limiter, jar, lastPassword>>

\* the loop is over: $disconnect, and the run is complete
MigrateEnd ==
  /\ script.pc = "loop"
  /\ script.i > Len(script.found)
  /\ script' = [script EXCEPT !.pc = "idle", !.found = <<>>, !.i = 0, !.runs = @ + 1]
  /\ res' = NoRes
  /\ UNCHANGED <<users, now, nextToken, outbox, consumed, pc, req, calls,
                  env, server, limiter, jar, lastPassword>>

(***************************************************************************)
(* The clock.                                                              *)
(***************************************************************************)
Tick ==
  /\ \E t \in Instants : t > now /\ now' = t
  /\ res' = NoRes
  /\ UNCHANGED <<calls, users, nextToken, outbox, consumed, pc, req,
                  env, server, script, limiter, jar, lastPassword>>

\* the clock of the services model: from inside the reset window to past it
ServiceTick ==
  /\ \E t \in ServiceInstants : t > now /\ now' = t
  /\ res' = NoRes
  /\ UNCHANGED <<calls, users, nextToken, outbox, consumed, pc, req,
                  env, server, script, limiter, jar, lastPassword>>

\* the clock of the session model
SessionTick ==
  /\ \E t \in SessionInstants : t > now /\ now' = t
  /\ res' = NoRes
  /\ UNCHANGED <<calls, users, nextToken, outbox, consumed, pc, req,
                  env, server, script, limiter, jar, lastPassword>>

(***************************************************************************)
(* The start of the process: server.ts imports the routes, which evaluates *)
(* jwt.util.ts and auth.middleware.ts (after db.ts has loaded dotenv);     *)
(* getJwtSecret throwing there ends the process before it listens.         *)
(***************************************************************************)
Boot ==
  /\ server = "loading"
  /\ server' = IF getJwtSecret.threw THEN "failed" ELSE "listening"
  /\ res' = NoRes
  /\ UNCHANGED <<users, now, nextToken, outbox, consumed, pc, req, calls,
                  env, jar, lastPassword, limiter, script>>

\* an empty User table, no request received, a browser without the cookie
EmptySystem ==
  /\ users = {}
  /\ now = 0
  /\ nextToken = 1
  /\ outbox = {}
  /\ consumed = {}
  /\ pc = [p \in Procs |-> "idle"]
  /\ req = [p \in Procs |-> NoReq]
  /\ res = NoRes
  /\ calls = 0
  /\ jar = NoCookie
  /\ lastPassword = [e \in Emails |-> NULL]
  /\ script = NotRunning

\* a process that started in a development environment with its secret
Init ==
  /\ EmptySystem
  /\ limiter = NoHits
  /\ env = [NODE_ENV |-> "development", JWT_SECRET |-> ServerSecret]
  /\ server = "listening"

\* a process about to start, in any environment
SessionInit ==
  /\ EmptySystem
  /\ limiter = NoHits
  /\ env \in Environments
  /\ server = "loading"

Next ==
  \/ \E p \in Procs, e \in Emails, w \in Passwords : RegisterFind(p, e, w)
  \/ \E p \in Procs : RegisterCreate(p)
  \/ \E p \in Procs, e \in Emails, w \in LoginPasswords : LoginFind(p, e, w)
  \/ \E p \in Procs : LoginCompare(p)
  \/ \E p \in Procs, e \in Emails : ForgotFind(p, e)
  \/ \E p \in Procs : ForgotUpdate(p)
  \/ \E p \in Procs, d \in BOOLEAN : ForgotSend(p, d)
  \/ \E p \in Procs, t \in Tokens, w \in Passwords : ResetFind(p, HexToken(t), w)
  \/ \E p \in Procs : ResetUpdate(p)
  \/ \E p \in Procs, c \in Presented : UpdatePasswordRejected(p, c)
  \/ \E p \in Procs, c \in Presented, e \in Emails, w \in Passwords : UpdatePasswordGate(p, c, e, w)
  \/ \E p \in Procs : UpdatePassword(p)
  \/ \E p \in Procs, c \in Presented : Logout(p, c)
  \/ Tick

Spec == Init /\ [][Next]_vars

\* the recovery flow: registration to fill the store, login, POST
\* /forgot-password and POST /reset-password, and the clock around the end
\* of the reset window
RecoveryNext ==
  \/ \E p \in Procs, e \in Emails, w \in Passwords : RegisterFind(p, e, w)
  \/ \E p \in Procs : RegisterCreate(p)
  \/ \E p \in Procs, e \in Emails, w \in LoginPasswords : LoginFind(p, e, w)
  \/ \E p \in Procs : LoginCompare(p)
  \/ \E p \in Procs, e \in Emails : ForgotFind(p, e)
  \/ \E p \in Procs : ForgotUpdate(p)
  \/ \E p \in Procs, d \in BOOLEAN : ForgotSend(p, d)
  \/ \E p \in Procs, t \in Tokens, w \in Passwords : ResetFind(p, HexToken(t), w)
  \/ \E p \in Procs : ResetUpdate(p)
  \/ Tick

RecoverySpec == Init /\ [][RecoveryNext]_vars

\* the gate when the store changes under it: registration, the recovery
\* flow, PATCH /update-password and POST /logout
AccountNext ==
  \/ \E p \in Procs, e \in Emails, w \in Passwords : RegisterFind(p, e, w)
  \/ \E p \in Procs : RegisterCreate(p)
  \/ \E p \in Procs, e \in Emails : ForgotFind(p, e)
  \/ \E p \in Procs : ForgotUpdate(p)
  \/ \E p \in Procs, d \in BOOLEAN : ForgotSend(p, d)
  \/ \E p \in Procs, t \in Tokens, w \in Passwords : ResetFind(p, HexToken(t), w)
  \/ \E p \in Procs : ResetUpdate(p)
  \/ \E p \in Procs, c \in Presented : UpdatePasswordRejected(p, c)
  \/ \E p \in Procs, c \in Presented, e \in Emails, w \in Passwords : UpdatePasswordGate(p, c, e, w)
  \/ \E p \in Procs : UpdatePassword(p)
  \/ \E p \in Procs, c \in Presented : Logout(p, c)

AccountSpec == Init /\ [][AccountNext]_vars

\* the four services of the claim on their own: registerUser, loginUser,
\* requestPasswordReset and resetPasswordWithToken, and the clock passing the
\* reset window
ServiceNext ==
  \/ \E p \in Procs, e \in Emails, w \in Passwords : RegisterFind(p, e, w)
  \/ \E p \in Procs : RegisterCreate(p)
  \/ \E p \in Procs, e \in Emails, w \in LoginPasswords : LoginFind(p, e, w)
  \/ \E p \in Procs : LoginCompare(p)
  \/ \E p \in Procs, e \in Emails : ForgotFind(p, e)
  \/ \E p \in Procs : ForgotUpdate(p)
  \/ \E p \in Procs, d \in BOOLEAN : ForgotSend(p, d)
  \/ \E p \in Procs, t \in Tokens, w \in Passwords : ResetFind(p, HexToken(t), w)
  \/ \E p \in Procs : ResetUpdate(p)
  \/ ServiceTick

\* the code of slot p after an await: it runs when the awaited call returns
Resume(p) ==
  \/ RegisterCreate(p)
  \/ LoginCompare(p)
  \/ ForgotUpdate(p)
  \/ \E d \in BOOLEAN : ForgotSend(p, d)
  \/ ResetUpdate(p)

\* the services when every awaited store, hasher and dispatcher call returns:
\* the event loop then resumes the handler that awaits it
ServiceSpec ==
  /\ Init
  /\ [][ServiceNext]_vars
  /\ \A p \in Procs : WF_vars(Resume(p))

(***************************************************************************)
(* The validation in front of the services: what each route makes of the   *)
(* email of the request body before its service sees it.                   *)
(***************************************************************************)
\* an email address as typed: the parts of its local name between dots and
\* its domain, both spelled in lower case, and whether it was typed with
\* capital letters
Address(local, domain, capitals) ==
  [local |-> local, domain |-> domain, capitals |-> capitals]

\* the addresses a client may type
TypedAddresses ==
  {Address(l, "gmail.com", c) : l \in {<<"j", "doe">>, <<"jdoe">>}, c \in BOOLEAN}

\* zod's .toLowerCase() (.trim() finds nothing to remove in these addresses)
toLowerCase(address) == [address EXCEPT !.capitals = FALSE]

\* the parts of a local name written one after the other
RECURSIVE Joined(_)
Joined(parts) == IF parts = <<>> THEN "" ELSE Head(parts) \o Joined(Tail(parts))

\* express-validator's normalizeEmail() with its default options: lower case,
\* and for a Gmail address the dots of the local name removed
normalizeEmail(address) ==
  IF address.domain \in {"gmail.com", "googlemail.com"}
  THEN [local |-> <<Joined(address.local)>>, domain |-> "gmail.com", capitals |-> FALSE]
  ELSE [address EXCEPT !.capitals = FALSE]

\* registerSchema.parse(request.body).email
registerSchemaEmail(address) == toLowerCase(address)

\* loginSchema.parse(request.body).email
loginSchemaEmail(address) == toLowerCase(address)

\* POST /forgot-password: validateForgotPassword rewrites request.body.email,
\* then forgotPasswordSchema.parse(request.body).email
forgotPasswordEmail(address) == toLowerCase(normalizeEmail(address))

\* the emails the services can receive from these routes
ParsedAddresses ==
  {registerSchemaEmail(a) : a \in TypedAddresses}
  \cup {forgotPasswordEmail(a) : a \in TypedAddresses}

\* a process that started in a development environment, about to receive
\* typed addresses
AddressInit ==
  /\ users = {}
  /\ now = 0
  /\ nextToken = 1
  /\ outbox = {}
  /\ consumed = {}
  /\ pc = [p \in Procs |-> "idle"]
  /\ req = [p \in Procs |-> NoReq]
  /\ res = NoRes
  /\ calls = 0
  /\ jar = NoCookie
  /\ lastPassword = [e \in ParsedAddresses |-> NULL]
  /\ script = NotRunning
  /\ limiter = NoHits
  /\ env = [NODE_ENV |-> "development", JWT_SECRET |-> ServerSecret]
  /\ server = "listening"

\* the routes that take an email from the request body, each behind its
\* validation: POST /auth/register, POST /auth/login, POST /forgot-password
AddressNext ==
  \/ \E p \in Procs, a \in TypedAddresses, w \in Passwords :
       RegisterFind(p, registerSchemaEmail(a), w)
  \/ \E p \in Procs : RegisterCreate(p)
  \/ \E p \in Procs, a \in TypedAddresses, w \in Passwords :
       LoginFind(p, loginSchemaEmail(a), w)
  \/ \E p \in Procs : LoginCompare(p)
  \/ \E p \in Procs, a \in TypedAddresses : ForgotFind(p, forgotPasswordEmail(a))
  \/ \E p \in Procs : ForgotUpdate(p)
  \/ \E p \in Procs, d \in BOOLEAN : ForgotSend(p, d)

AddressSpec == AddressInit /\ [][AddressNext]_vars

\* a client address that may have sent, at the start, one request that failed
\* validation
LimiterInit ==
  /\ EmptySystem
  /\ limiter \in {NoHits, [NoHits EXCEPT !.totalHits = 1, !.resetTime = LimiterWindow]}
  /\ env = [NODE_ENV |-> "development", JWT_SECRET |-> ServerSecret]
  /\ server = "listening"

\* the password routes as one client address sees them, behind the limiter,
\* with registration to fill the store
LimiterNext ==
  \/ \E p \in Procs, w \in Passwords : RegisterFind(p, "a@x.com", w)
  \/ \E p \in Procs : RegisterCreate(p)
  \/ \E p \in Procs, e \in Emails \cup {""} : LimitedForgotPassword(p, e)
  \/ \E p \in Procs : ForgotUpdate(p)
  \/ \E p \in Procs, d \in BOOLEAN : ForgotSend(p, d)
  \/ \E p \in Procs, t \in Tokens, w \in Passwords :
       LimitedResetPassword(p, HexToken(t), w)
  \/ \E p \in Procs : LimitedResetPassword(p, NULL, CHOOSE w \in Passwords : TRUE)
  \/ \E p \in Procs : ResetUpdate(p)
  \/ Tick

LimiterSpec == LimiterInit /\ [][LimiterNext]_vars

\* a row of the table as the script finds it: created before the run
StoredUser(id, email, password) ==
  [id |-> id, email |-> email, name |-> "name", cep |-> "cep",
   telefone |-> "telefone", password |-> password,
   resetToken |-> NULL, resetTokenExpiry |-> NULL]

\* a table of one or two users whose passwords are in clear or hashed, a
\* server that listens, and the script not yet run
MigrationInit ==
  /\ \E first, second \in StoredPasswords :
       users \in {{StoredUser(1, "a@x.com", first)},
                  {StoredUser(1, "a@x.com", first), StoredUser(2, "b@x.com", second)}}
  /\ now = 0
  /\ nextToken = 1
  /\ outbox = {}
  /\ consumed = {}
  /\ pc = [p \in Procs |-> "idle"]
  /\ req = [p \in Procs |-> NoReq]
  /\ res = NoRes
  /\ calls = 0
  /\ jar = NoCookie
  /\ lastPassword = [e \in Emails |-> NULL]
  /\ limiter = NoHits
  /\ script = NotRunning
  /\ env = [NODE_ENV |-> "development", JWT_SECRET |-> ServerSecret]
  /\ server = "listening"

\* runs of the script, while the server registers users
MigrationNext ==
  \/ MigrateFind
  \/ MigrateHash
  \/ MigrateUpdate
  \/ MigrateEnd
  \/ \E p \in Procs, e \in Emails, w \in Passwords : RegisterFind(p, e, w)
  \/ \E p \in Procs : RegisterCreate(p)

MigrationSpec == MigrationInit /\ [][MigrationNext]_vars

\* the session model: the start of the process, registration, login, the
\* gate in front of logout, optionalAuth, and the clock at the scale of a
\* session's lifetime
SessionNext ==
  \/ Boot
  \/ \E p \in Procs, e \in Emails, w \in Passwords : RegisterFind(p, e, w)
  \/ \E p \in Procs : RegisterCreate(p)
  \/ \E p \in Procs, e \in Emails, w \in LoginPasswords : LoginFind(p, e, w)
  \/ \E p \in Procs : LoginCompare(p)
  \/ \E p \in Procs, c \in SessionPresented : Logout(p, c)
  \/ \E p \in Procs, h \in Headers : LogoutBearer(p, h)
  \/ \E p \in Procs, c \in SessionPresented : OptionalAuth(p, c)
  \/ \E p \in Procs, h \in Headers : OptionalAuthBearer(p, h)
  \/ SessionTick

SessionSpec == SessionInit /\ [][SessionNext]_vars

(***************************************************************************)
(* Steps of a behaviour, recognised from the variables they change.        *)
(***************************************************************************)
\* slot p receives a request for handler `name` and runs to the await `label`
\* or to its response
FirstStep(p, name, label) ==
  /\ pc[p] = "idle"
  /\ calls' = calls + 1
  /\ \/ pc'[p] = label
     \/ pc'[p] = "idle" /\ res'.proc = p /\ res'.op = name

\* slot p resumes from the await `label` and returns
LastStep(p, label) == pc[p] = label /\ pc'[p] = "idle"

\* the reset token a resetPassword request of slot p presents
PresentedToken(p) == IF pc'[p] = "idle" THEN res'.token ELSE req'[p].token

\* the email a request of slot p names
PresentedEmail(p) == IF pc'[p] = "idle" THEN res'.email ELSE req'[p].email

\* the stored records with the given email
Account(email) == {u \in users : u.email = email}

\* the response of a call that failed with InvalidOrExpiredToken
InvalidOrExpiredToken(r) ==
  /\ ~r.ok
  /\ r.error = "INVALID_TOKEN"
  /\ r.status = 401
  /\ r.body = "Token inválido ou expirado"

(***************************************************************************)
(* C1: reset tokens are single-use.  Once a resetPassword call has         *)
(* succeeded with a token, every call received later with the same token   *)
(* fails at its lookup with InvalidOrExpiredToken, whatever ran in between.*)
(***************************************************************************)
C1_ResetSingleUse ==
  [][\A p \in Procs :
       (FirstStep(p, "reset", "resetUpdate") /\ PresentedToken(p) \in consumed)
         => (pc'[p] = "idle" /\ InvalidOrExpiredToken(res'))]_vars

\* a replayed token was rejected
C1_Witness ==
  /\ res.op = "reset"
  /\ res.token \in consumed
  /\ InvalidOrExpiredToken(res)

(***************************************************************************)
(* C2: of two concurrent resetPassword calls with the same valid token,    *)
(* exactly one succeeds; the other fails with InvalidOrExpiredToken and    *)
(* leaves the winner's password in place.                                  *)
(***************************************************************************)
C2_ConcurrentResetOneWinner ==
  [][\A p \in Procs :
       LastStep(p, "resetUpdate") =>
         IF req[p].token \in consumed
         THEN InvalidOrExpiredToken(res') /\ users' = users
         ELSE res'.ok]_vars

C5_ResetNeedsValidToken ==
  [][/\ \A p \in Procs :
          FirstStep(p, "reset", "resetUpdate") =>
            /\ pc'[p] = "resetUpdate" <=>
                 \E u \in users : /\ u.resetToken = PresentedToken(p)
                                  /\ u.resetTokenExpiry # NULL
                                  /\ u.resetTokenExpiry.time >= now
            /\ pc'[p] = "idle" => InvalidOrExpiredToken(res')
     /\ (res'.op = "reset" /\ res'.ok) =>
          \E p \in Procs : LastStep(p, "resetUpdate")]_vars

\* a token still stored but past its expiry was rejected
C5_Witness ==
  /\ res.op = "reset"
  /\ InvalidOrExpiredToken(res)
  /\ \E u \in users : u.resetToken = res.token /\ u.resetTokenExpiry.time < now

(***************************************************************************)
(* C6: requestPasswordReset for an email with no account answers with the  *)
(* same success message as for an existing account with no pending token,  *)
(* changes no record and sends no email.                                   *)
(***************************************************************************)
C6_UnknownEmailIndistinguishable ==
  [][/\ \A p \in Procs :
          (FirstStep(p, "forgot", "forgotUpdate") /\ Account(PresentedEmail(p)) = {}) =>
            /\ pc'[p] = "idle"
            /\ res'.ok
            /\ users' = users
            /\ outbox' = outbox
     /\ (res'.op = "forgot" /\ res'.ok) => res'.body = UnknownEmailMessage]_vars

(***************************************************************************)
(* C7: loginUser with an unknown email and loginUser with a known email    *)
(* and a wrong password fail with the same error INVALID_CREDENTIALS, the  *)
(* same status 401 and the same body.                                      *)
(***************************************************************************)
InvalidCredentials(r) ==
  /\ ~r.ok
  /\ r.error = "INVALID_CREDENTIALS"
  /\ r.status = 401
  /\ r.body = "Credenciais inválidas"
  /\ r.view = NULL
  /\ r.setCookie = NoJwt

C7_LoginEnumerationResistance ==
  [][\A p \in Procs :
       /\ (FirstStep(p, "login", "loginCompare") /\ Account(PresentedEmail(p)) = {}) =>
            pc'[p] = "idle" /\ InvalidCredentials(res')
       /\ (LastStep(p, "loginCompare") /\ ~BcryptCompare(req[p].password, req[p].user.password)) =>
            InvalidCredentials(res')]_vars

\* a login with a known email and a wrong password was refused
C7_Witness ==
  /\ res.op = "login"
  /\ InvalidCredentials(res)
  /\ \E u \in users : u.email = res.email

(***************************************************************************)
(* C8: of the registerUser calls with one email, in any interleaving, at   *)
(* most one creates a record and succeeds; every other one fails with      *)
(* EmailAlreadyExists (409), at the lookup or at the unique constraint.    *)
(***************************************************************************)
EmailAlreadyExists(r) ==
  /\ ~r.ok
  /\ r.error = "EMAIL_ALREADY_EXISTS"
  /\ r.status = 409

C8_ConcurrentRegisterOneWinner ==
  [][/\ \A p \in Procs :
          /\ (FirstStep(p, "register", "registerCreate") /\ pc'[p] = "idle") =>
               EmailAlreadyExists(res') /\ users' = users
          /\ LastStep(p, "registerCreate") =>
               IF res'.ok
               THEN /\ Account(req[p].email) = {}
                    /\ \E u \in users' : u.email = req[p].email /\ users' = users \cup {u}
               ELSE EmailAlreadyExists(res') /\ users' = users
     /\ \A u \in users : \E v \in users' : v.email = u.email
     /\ \A u, v \in users' : u.email = v.email => u = v]_vars

\* a registration lost the race at the unique constraint of createUser
C8_Witness ==
  /\ res.op = "register"
  /\ res.cause = "create"
  /\ EmailAlreadyExists(res)

(***************************************************************************)
(* C9: the user view a successful registerUser or loginUser returns holds  *)
(* none of the fields password, resetToken, resetTokenExpiry.              *)
(***************************************************************************)
C9_PublicUserView ==
  (res.op \in {"register", "login"} /\ res.ok) =>
    (DOMAIN res.view) \cap {"password", "passwordHash", "resetToken", "resetTokenExpiry"} = {}

(***************************************************************************)
(* C10: authenticateToken ends either in next() with request.user set to   *)
(* the token's verified userId and email, or in a 401 without next().  It  *)
(* calls next() only for a token that is present, signed with the key,     *)
(* unexpired and carries userId and email; no token always gives 401.      *)
(***************************************************************************)
C10_GateOutcome ==
  /\ res.cause = "gate" =>
       LET c == res.cookie IN
       /\ res.nextCalled =>
            /\ c # NoJwt
            /\ c.wellFormed
            /\ c.key = JWT_SECRET
            /\ now < c.exp
            /\ {"userId", "email"} \subseteq DOMAIN c.payload
            /\ res.user.userId = c.payload.userId
            /\ res.user.email = c.payload.email
            /\ res.status # 401
       /\ ~res.nextCalled =>
            /\ res.status = 401
            /\ res.user = NULL
            /\ ~res.clearCookie
       /\ c = NoJwt => ~res.nextCalled
  /\ \A p \in Procs :
       pc[p] = "updatePassword" => {"userId", "email"} \subseteq DOMAIN req[p].user

\* the gate let a request through on a token one tick before its expiry
C10_Witness ==
  /\ res.cause = "gate"
  /\ res.nextCalled
  /\ res.cookie.exp = now + 1

(***************************************************************************)
(* C11.  The gate answers a correctly signed token whose exp has passed    *)
(* with 401 "Token expirado", and a token that is malformed or not signed  *)
(* with the key with 401 "Token inválido"; an expired token is never       *)
(* reported invalid and a forged one never expired, whatever its exp says. *)
(***************************************************************************)
C11_ExpiredDistinctFromInvalid ==
  (res.cause = "gate" /\ res.cookie # NoJwt) =>
    LET c == res.cookie
        forged == ~c.wellFormed \/ ~SignatureValid(c, MiddlewareSecret)
    IN /\ (~forged /\ now >= c.exp) =>
            /\ ~res.nextCalled
            /\ res.status = 401
            /\ res.body = "Token expirado"
       /\ forged =>
            /\ ~res.nextCalled
            /\ res.status = 401
            /\ res.body = "Token inválido"
       /\ res.body = "Token expirado" => (~forged /\ now >= c.exp)

\* the gate answered "Token expirado" to a token signed with the key, and
\* there is a forged token with a past exp that it would call invalid
C11_Witness ==
  /\ res.cause = "gate"
  /\ res.cookie # NoJwt
  /\ res.body = "Token expirado"
  /\ res.cookie.key = MiddlewareSecret
  /\ \E c \in Cookies : /\ c # NoJwt
                        /\ c.wellFormed
                        /\ c.key # MiddlewareSecret
                        /\ now >= c.exp
                        /\ authenticateToken(c).body = "Token inválido"

(***************************************************************************)
(* C12.  The token generateToken made at login carries the id and email of *)
(* the user who logged in and lives one day; jwt.verify gives back that    *)
(* payload while the day has not passed and TokenExpiredError once it has, *)
(* and the gate answers a request bearing it accordingly.                  *)
(***************************************************************************)
C12_GenerateVerifyRoundTrip ==
  /\ \A u \in users :
       (/\ res.cause = "gate"
        /\ res.cookie # NoJwt
        /\ res.cookie = JwtSign([userId |-> u.id, email |-> u.email], JWT_SECRET,
                                res.cookie.iat, JwtLifetimeMinutes * TicksPerMinute)) =>
          IF now < res.cookie.iat + JwtLifetimeMinutes * TicksPerMinute
          THEN res.nextCalled /\ res.user = [userId |-> u.id, email |-> u.email]
          ELSE ~res.nextCalled /\ res.status = 401 /\ res.body = "Token expirado"
  /\ jar # NoCookie =>
    LET token == jar.value
        v == JwtVerify(token, MiddlewareSecret)
    IN /\ \E u \in users :
            /\ token.payload = [userId |-> u.id, email |-> u.email]
            /\ now < token.iat + JwtLifetimeMinutes * TicksPerMinute =>
                 /\ v.error = ""
                 /\ v.decoded.userId = u.id
                 /\ v.decoded.email = u.email
       /\ now >= token.iat + JwtLifetimeMinutes * TicksPerMinute =>
            /\ v.error = "TokenExpiredError"
            /\ v.decoded = NULL

\* the day has passed since login and the gate found the token of the login
\* expired
C12_Witness ==
  /\ jar # NoCookie
  /\ now >= jar.value.iat + JwtLifetime
  /\ res.cause = "gate"
  /\ res.cookie = jar.value
  /\ res.body = "Token expirado"
  /\ \E u \in users : jar.value.payload = [userId |-> u.id, email |-> u.email]

(***************************************************************************)
(* C13.  A token that is not one generateToken signs with the key (it is   *)
(* malformed, signed with another key, or its payload or exp were changed  *)
(* after signing) is never let through: 401 "Token inválido", next() not   *)
(* called, request.user not set.                                           *)
(***************************************************************************)
C13_TamperedTokenRejected ==
  (res.cause = "gate" /\ res.cookie # NoJwt) =>
    LET c == res.cookie
        issued == /\ c.wellFormed
                  /\ DOMAIN c.payload = {"userId", "email"}
                  /\ c = JwtSign(c.payload, JWT_SECRET, c.iat, JwtLifetime)
    IN ~issued =>
         /\ ~res.nextCalled
         /\ res.status = 401
         /\ res.body = "Token inválido"
         /\ res.user = NULL
         /\ ~res.ok

\* the gate turned away a token signed with the key whose payload or exp
\* were rewritten afterwards
C13_Witness ==
  /\ res.cause = "gate"
  /\ res.cookie # NoJwt
  /\ res.cookie.wellFormed
  /\ res.cookie.key = MiddlewareSecret
  /\ res.cookie.signed # [payload |-> res.cookie.payload, iat |-> res.cookie.iat,
                          exp |-> res.cookie.exp]
  /\ res.body = "Token inválido"

(***************************************************************************)
(* C14.  optionalAuth, in both versions, calls next() exactly once and     *)
(* writes no response, whatever the request carries; it sets request.user  *)
(* (to the decoded payload) exactly when a token is present, verifies with *)
(* the key, is unexpired and carries userId and email.                     *)
(***************************************************************************)
C14_OptionalAuthAlwaysNext ==
  LET good(c) == /\ c # NoJwt
                 /\ c.wellFormed
                 /\ SignatureValid(c, MiddlewareSecret)
                 /\ now < c.exp
                 /\ {"userId", "email"} \subseteq DOMAIN c.payload
      cookieOf(h) == IF h # NULL /\ Len(h.parts) = 2 /\ h.parts[1] # ""
                        /\ IsBearer(h.parts[1])
                     THEN h.parts[2] ELSE NoJwt
  IN /\ res.cause \in {"optionalAuth", "optionalAuth header"} =>
          /\ res.nextCalls = 1
          /\ res.status = 0
          /\ res.body = ""
          /\ res.setCookie = NoJwt /\ ~res.clearCookie
     /\ res.cause = "optionalAuth" =>
          /\ (res.user # NULL) <=> good(res.cookie)
          /\ good(res.cookie) => res.user = res.cookie.payload
     /\ res.cause = "optionalAuth header" =>
          /\ (res.user # NULL) <=> good(cookieOf(res.authorization))
          /\ good(cookieOf(res.authorization)) =>
               res.user = cookieOf(res.authorization).payload

\* optionalAuth handed on, without a user, a request whose token had expired
C14_Witness ==
  /\ res.cause = "optionalAuth"
  /\ res.cookie # NoJwt
  /\ res.cookie.wellFormed
  /\ SignatureValid(res.cookie, MiddlewareSecret)
  /\ now >= res.cookie.exp
  /\ res.nextCalls = 1
  /\ res.user = NULL

(***************************************************************************)
(* C15.  Under either value of the production flag, the cookie a login     *)
(* sets and the cookie a logout clears agree in name, httpOnly, secure,    *)
(* sameSite and path, so the browser that holds the cookie of a login and  *)
(* sends it to logout holds no cookie afterwards.                          *)
(***************************************************************************)
C15_ClearMatchesSet ==
  [][ /\ \A p \in Procs :
           (LastStep(p, "loginCompare") /\ res'.ok) =>
             /\ res'.setOptions = setAuthCookie(res'.setCookie)
             /\ \A f \in {"name", "httpOnly", "secure", "sameSite", "path"} :
                  /\ jar'[f] = res'.setOptions[f]
                  /\ clearAuthCookie[f] = res'.setOptions[f]
             /\ jar'.secure = (env.NODE_ENV = "production")
      /\ (/\ calls' = calls + 1
          /\ res'.op = "logout"
          /\ res'.cause = "gate"
          /\ res'.clearCookie
          /\ res'.cookie \in JarCookies) =>
             /\ \A f \in {"name", "httpOnly", "secure", "sameSite", "path"} :
                  res'.clearOptions[f] = jar[f]
             /\ res'.evicted
             /\ jar' = NoCookie
    ]_vars

\* in production, the browser dropped the cookie of its login at logout
C15_Witness ==
  /\ isProduction
  /\ res.op = "logout"
  /\ res.clearCookie
  /\ res.evicted
  /\ res.clearOptions.secure
  /\ jar = NoCookie

C17_NoSecretNoServer ==
  LET defined == "JWT_SECRET" \in DOMAIN env /\ env.JWT_SECRET # "" IN
  /\ ~defined =>
       /\ server # "listening"
       /\ calls = 0
       /\ res = NoRes
       /\ jar = NoCookie
  /\ server = "listening" =>
       /\ defined
       /\ JWT_SECRET = env.JWT_SECRET
       /\ MiddlewareSecret = env.JWT_SECRET
       /\ JWT_SECRET # DefaultSecret
  /\ res.jwt # NoJwt => (defined /\ res.jwt.key = env.JWT_SECRET /\ res.jwt.key # DefaultSecret)
  /\ res.setCookie # NoJwt =>
       (defined /\ res.setCookie.key = env.JWT_SECRET /\ res.setCookie.key # DefaultSecret)
  /\ (res.cause = "gate" /\ res.nextCalled) =>
       (defined /\ res.cookie.key = env.JWT_SECRET /\ res.cookie.key # DefaultSecret)
  /\ (res.cause \in {"header gate", "optionalAuth", "optionalAuth header"}
      /\ res.user # NULL) => defined

\* the server was started without JWT_SECRET and failed while loading
C17_Witness ==
  /\ "JWT_SECRET" \notin DOMAIN env
  /\ server = "failed"

(***************************************************************************)
(* C18.  A login whose stored hash is the one its lookup read succeeds     *)
(* exactly when the password it presents is the password most recently set *)
(* for the account by registerUser, resetPassword or updatePassword.       *)
(***************************************************************************)
C18_LoginIffLatestPassword ==
  [][ \A p \in Procs :
        /\ (/\ LastStep(p, "loginCompare")
            /\ \A u \in Account(req[p].email) : u.password = req[p].user.password) =>
              (res'.ok <=> req[p].password = lastPassword[req[p].email])
        /\ LastStep(p, "resetUpdate") =>
              \A u \in users' :
                u.id = req[p].user.id =>
                  /\ u.resetToken = NULL
                  /\ u.resetTokenExpiry = NULL
                  /\ lastPassword'[u.email] = req[p].password
                  /\ BcryptCompare(req[p].password, u.password)
    ]_vars

C20_GateIsStateless ==
  [][ (now' = now /\ (users' # users \/ jar' # jar \/ res'.op = "logout")) =>
        /\ MiddlewareSecret' = MiddlewareSecret
        /\ \A c \in JarCookies \cup {JwtWith(Subject, JWT_SECRET, JwtLifetime),
                                     JwtWith(Subject, JWT_SECRET, 0)} :
             authenticateToken(c)' = authenticateToken(c)
    ]_vars

\* the gate let through the token of a user whose password had been reset
\* since the start
C20_Witness ==
  /\ res.cause = "gate"
  /\ res.nextCalled
  /\ \E m \in outbox : m.to = res.user.email /\ m.token \in consumed
  /\ \E u \in users : u.id = res.user.userId /\ u.email = res.user.email

(***************************************************************************)
(* C21.  A requestPasswordReset whose email dispatch fails ends in an      *)
(* error of its own: the call does not succeed, returns neither of the     *)
(* success messages, and its error is not RATE_LIMIT (500, not 200 or 429).*)
(***************************************************************************)
C21_DispatchFailureSurfaces ==
  [][ \A p \in Procs :
        (LastStep(p, "forgotSend") /\ outbox' = outbox) =>
          /\ res'.proc = p
          /\ res'.op = "forgot"
          /\ ~res'.ok
          /\ res'.error = "Falha ao enviar email"
          /\ res'.error # "RATE_LIMIT"
          /\ res'.status = 500
          /\ res'.body \notin {EmailSentMessage, UnknownEmailMessage,
                               passwordHandleServiceError(RateLimitError(1)).body}
    ]_vars

\* a reset request ended in the dispatcher's error
C21_Witness ==
  /\ res.op = "forgot"
  /\ res.error = "Falha ao enviar email"
  /\ res.status = 500
  /\ \A m \in outbox : m.to # res.email

(***************************************************************************)
(* C22.  The controllers map each service error to one status: the auth    *)
(* controller EMAIL_ALREADY_EXISTS to 409 and INVALID_CREDENTIALS to 401,  *)
(* the password controller RATE_LIMIT:n to 429 with n in the message and   *)
(* INVALID_TOKEN to 401, and both every other message to 500 with their    *)
(* generic message; every error response of a call shows that mapping.     *)
(***************************************************************************)
C22_ErrorKindToStatus ==
  LET auth500 == [status |-> 500, body |-> "Erro interno do servidor"]
      password500 == "Erro ao processar solicitação. Tente novamente mais tarde."
      mapped == {"EMAIL_ALREADY_EXISTS", "INVALID_CREDENTIALS", "INVALID_TOKEN", "RATE_LIMIT"}
  IN
  /\ authHandleServiceError("EMAIL_ALREADY_EXISTS") =
       [status |-> 409, body |-> "Email já cadastrado, por favor use outro Email"]
  /\ authHandleServiceError("INVALID_CREDENTIALS") =
       [status |-> 401, body |-> "Credenciais inválidas"]
  /\ (\A other \in {"P2002", "P2025", "USER_NOT_FOUND", "RATE_LIMIT", "INVALID_TOKEN", ""} :
        authHandleServiceError(other) = auth500)
  /\ (\A n \in 1..ResetWindowMinutes :
        /\ passwordHandleServiceError(RateLimitError(n)).status = 429
        /\ passwordHandleServiceError(RateLimitError(n)).minutes = n)
  /\ passwordHandleServiceError(<<"INVALID_TOKEN">>).status = 401
  /\ (\A other \in {<<"Falha ao enviar email">>, <<"P2025">>, <<"RATE_LIMIT">>,
                    <<"EMAIL_ALREADY_EXISTS">>, <<"">>} :
        /\ passwordHandleServiceError(other).status = 500
        /\ passwordHandleServiceError(other).body = password500)
  /\ (res.error = "EMAIL_ALREADY_EXISTS") => (res.status = 409)
  /\ (res.error = "INVALID_CREDENTIALS") => (res.status = 401)
  /\ (res.error = "INVALID_TOKEN") => (res.status = 401)
  /\ (res.error = "RATE_LIMIT") =>
       (/\ res.status = 429
        /\ res.minutes \in 1..ResetWindowMinutes
        /\ \E u \in Account(res.email) : res.minutes = TimeLeft(u))
  /\ (res.error \notin mapped \cup {""}) =>
       (/\ res.status = 500
        /\ res.body \in {auth500.body, password500, "Erro ao atualizar senha"})

\* a reset request was answered 429 with the whole window still to wait
C22_Witness ==
  /\ res.error = "RATE_LIMIT"
  /\ res.status = 429
  /\ res.minutes = ResetWindowMinutes

(***************************************************************************)
(* C23.  A call of registerUser, loginUser, requestPasswordReset or        *)
(* resetPasswordWithToken only moves forward through its awaits (lookup,   *)
(* then write, then dispatch), so it makes each of them at most once; it   *)
(* ends in one step with one outcome, a success or an error and not both;  *)
(* a step writes the store or sends one email only at the await that does  *)
(* so; and when the awaited calls return, every call in flight ends.       *)
(***************************************************************************)
Stage(label) ==
  CASE label = "idle" -> 0
    [] label \in {"registerCreate", "loginCompare", "forgotUpdate", "resetUpdate",
                  "updatePassword"} -> 1
    [] label = "forgotSend" -> 2

C23_CallsEndOnce ==
  /\ [][ \A p \in Procs :
           /\ (pc[p] = "idle" /\ pc'[p] # "idle") =>
                (/\ calls' = calls + 1
                 /\ Stage(pc'[p]) = 1
                 /\ res' = NoRes
                 /\ users' = users /\ outbox' = outbox)
           /\ (pc[p] # "idle" /\ pc'[p] # pc[p] /\ pc'[p] # "idle") =>
                (/\ Stage(pc'[p]) = Stage(pc[p]) + 1
                 /\ req'[p].op = req[p].op
                 /\ res' = NoRes
                 /\ outbox' = outbox)
           /\ (pc[p] # "idle" /\ pc'[p] = "idle") =>
                (/\ res'.proc = p
                 /\ res'.op = req[p].op
                 /\ res'.ok = (res'.error = "")
                 /\ req'[p] = NoReq)
           /\ (pc[p] # "idle" /\ users' # users) =>
                pc[p] \in {"registerCreate", "forgotUpdate", "resetUpdate"}
                \/ \E q \in Procs \ {p} : pc'[q] # pc[q]
           /\ (outbox' # outbox) =>
                (/\ \E q \in Procs : pc[q] = "forgotSend" /\ pc'[q] = "idle"
                 /\ Cardinality(outbox' \ outbox) = 1
                 /\ outbox \subseteq outbox'
                 /\ users' = users)
       ]_vars
  /\ \A p \in Procs : (pc[p] # "idle") ~> (pc[p] = "idle")

\* a reset request went through its three steps and ended with its email sent
C23_Witness ==
  /\ res.op = "forgot"
  /\ res.ok
  /\ res.cause = "sent"
  /\ pc[res.proc] = "idle"
  /\ \E m \in outbox : m.to = res.email

C25_EmailCaseInsensitiveKey ==
  LET sameUpToCase(a, b) == a.local = b.local /\ a.domain = b.domain
      registered(a) == \E u \in users : sameUpToCase(u.email, a)
  IN /\ \A u, v \in users : sameUpToCase(u.email, v.email) => u = v
     /\ \A a \in TypedAddresses :
          /\ registered(a) => findUserByEmail(registerSchemaEmail(a)) # NULL
          /\ registered(a) => findUserByEmailWithPassword(loginSchemaEmail(a)) # NULL
          /\ registered(a) => findUserByEmailForReset(forgotPasswordEmail(a)) # NULL
     /\ (res.error = "EMAIL_ALREADY_EXISTS") => (\E u \in users : u.email = res.email)

(***************************************************************************)
(* C26.  A requestPasswordReset that goes on to send writes its token and  *)
(* the expiry it computed, the clock reading plus 15 minutes, to the       *)
(* user's record in one update that changes nothing else, before the email *)
(* is dispatched; and each email dispatched carries the token that the     *)
(* addressee's record holds at the moment of dispatch.                     *)
(***************************************************************************)
C26_TokenStoredBeforeDispatch ==
  [][ /\ \A p \in Procs :
           FirstStep(p, "forgot", "forgotUpdate") /\ pc'[p] = "forgotUpdate" =>
             (/\ req'[p].expires = DateAt(now + ResetWindow)
              /\ users' = users
              /\ outbox' = outbox)
      /\ \A p \in Procs :
           pc[p] = "forgotUpdate" /\ pc'[p] # "forgotUpdate" =>
             (/\ pc'[p] = "forgotSend"
              /\ outbox' = outbox
              /\ \E u \in users :
                   /\ u.id = req[p].user.id
                   /\ users' = (users \ {u}) \cup
                                 {[u EXCEPT !.resetToken = req[p].newToken,
                                            !.resetTokenExpiry = req[p].expires]})
      /\ \A m \in outbox' \ outbox :
           (/\ \E p \in Procs :
                 /\ pc[p] = "forgotSend"
                 /\ pc'[p] = "idle"
                 /\ m = [to |-> req[p].email, token |-> req[p].newToken]
            /\ users' = users
            /\ \E u \in Account(m.to) : u.resetToken = m.token)
    ]_vars

(***************************************************************************)
(* C27.  A call of registerUser, loginUser, requestPasswordReset or        *)
(* resetPasswordWithToken that ends in EMAIL_ALREADY_EXISTS,               *)
(* INVALID_CREDENTIALS, RATE_LIMIT or INVALID_TOKEN changes no user        *)
(* record, issues no session token and sends no email: the step that ends  *)
(* it and the lookup step before it, which are all its steps, leave the    *)
(* table, the outbox and the browser's cookie as they were.                *)
(***************************************************************************)
C27_BusinessErrorChangesNothing ==
  [][ LET BusinessErrors == {"EMAIL_ALREADY_EXISTS", "INVALID_CREDENTIALS",
                             "RATE_LIMIT", "INVALID_TOKEN"}
          Services == {"register", "login", "forgot", "reset"}
          Lookups == {"registerCreate", "loginCompare", "forgotUpdate", "resetUpdate"}
      IN /\ (res'.op \in Services /\ res'.error \in BusinessErrors) =>
              (/\ ~res'.ok
               /\ pc[res'.proc] \in {"idle", "registerCreate", "loginCompare"}
               /\ users' = users
               /\ outbox' = outbox
               /\ jar' = jar
               /\ nextToken' = nextToken
               /\ consumed' = consumed
               /\ res'.jwt = NoJwt
               /\ res'.setCookie = NoJwt)
         /\ \A p \in Procs :
              (pc[p] = "idle" /\ pc'[p] \in Lookups) =>
                (users' = users /\ outbox' = outbox /\ jar' = jar)
    ]_vars

\* a login was refused for its password while the user's record held the
\* token of the one email sent
C27_Witness ==
  /\ res.op = "login"
  /\ res.error = "INVALID_CREDENTIALS"
  /\ res.cause = "mismatch"
  /\ \E u \in Account(res.email) :
       /\ u.resetToken # NULL
       /\ outbox = {[to |-> u.email, token |-> u.resetToken]}

C29_ConcurrentForgotOneWinner ==
  [][ \A p \in Procs :
        pc[p] = "forgotUpdate" /\ pc'[p] # "forgotUpdate" =>
          \A u \in users :
            u.id = req[p].user.id =>
              IF RateLimited(u)
              THEN /\ pc'[p] = "idle"
                   /\ res'.error = "RATE_LIMIT"
                   /\ users' = users
                   /\ outbox' = outbox
              ELSE /\ pc'[p] = "forgotSend"
                   /\ users' = updateResetToken([userId |-> u.id, token |-> req[p].newToken,
                                                 expires |-> req[p].expires])
    ]_vars

(***************************************************************************)
(* C30.  At any time resetPasswordWithToken accepts at most one token per  *)
(* user; and a token that was emailed to a user whose record has since     *)
(* been given another token is rejected with INVALID_TOKEN, without any    *)
(* change to the table.                                                    *)
(***************************************************************************)
C30_OneAcceptedTokenPerUser ==
  /\ [](\A u \in users :
          Cardinality({t \in Tokens :
                         /\ findUserByValidToken(HexToken(t)) # NULL
                         /\ findUserByValidToken(HexToken(t)).id = u.id}) <= 1)
  /\ [][ \A p \in Procs :
           FirstStep(p, "reset", "resetUpdate") =>
             ((\E m \in outbox :
                 /\ m.token = PresentedToken(p)
                 /\ \E u \in Account(m.to) :
                      u.resetToken # NULL /\ u.resetToken # m.token)
              => (/\ pc'[p] = "idle"
                  /\ InvalidOrExpiredToken(res')
                  /\ users' = users))
       ]_vars

\* a token that was emailed and never used was rejected before its expiry,
\* because the user's record holds a later token
C30_Witness ==
  /\ res.op = "reset"
  /\ res.error = "INVALID_TOKEN"
  /\ res.token \notin consumed
  /\ now < ResetWindow
  /\ \E m \in outbox :
       /\ m.token = res.token
       /\ \E u \in Account(m.to) :
            /\ u.resetToken # NULL
            /\ u.resetToken # m.token
            /\ u.resetTokenExpiry.time > now

(***************************************************************************)
(* C31.  A response of register carries a session token only when the      *)
(* same call created a user record, and the token is signed for the id and *)
(* the email of that record.  A response of login sets the token cookie    *)
(* only when bcrypt.compare accepted the password against the hash the     *)
(* call read, for that user's id and email; a login that fails sets no     *)
(* cookie and leaves the browser's cookie as it was.                       *)
(***************************************************************************)
C31_TokenAfterCreateOrVerify ==
  [][ /\ (res'.op = "register" /\ res'.proc \in Procs) =>
           LET p == res'.proc IN
             /\ pc[p] \in {"idle", "registerCreate"}
             /\ res'.setCookie = NoJwt
             /\ jar' = jar
             /\ IF res'.ok
                THEN /\ pc[p] = "registerCreate"
                     /\ \E u \in users' \ users :
                          /\ users' = users \cup {u}
                          /\ u.email = req[p].email
                          /\ res'.jwt = generateToken(u.id, u.email)
                          /\ res'.jwt.payload = [userId |-> u.id, email |-> u.email]
                ELSE /\ res'.jwt = NoJwt
                     /\ users' = users
      /\ (res'.op = "login" /\ res'.proc \in Procs) =>
           LET p == res'.proc IN
             /\ pc[p] \in {"idle", "loginCompare"}
             /\ res'.jwt = NoJwt
             /\ IF res'.ok
                THEN /\ pc[p] = "loginCompare"
                     /\ BcryptCompare(req[p].password, req[p].user.password)
                     /\ res'.setCookie = generateToken(req[p].user.id, req[p].user.email)
                     /\ req[p].user.email = req[p].email
                     /\ jar' # NoCookie
                     /\ jar'.value = res'.setCookie
                ELSE /\ res'.setCookie = NoJwt
                     /\ res'.setOptions = NULL
                     /\ jar' = jar
    ]_vars

\* a login with a wrong password was refused while the browser held the
\* cookie of an earlier login, which it keeps
C31_Witness ==
  /\ res.op = "login"
  /\ res.cause = "mismatch"
  /\ res.setCookie = NoJwt
  /\ jar # NoCookie
  /\ jar.value.payload.email = res.email
  /\ \E u \in Account(res.email) : jar.value.payload.userId = u.id

(***************************************************************************)
(* C32.  PATCH /auth/update-password changes the password of no account    *)
(* other than the one whose email is the email of the session token the    *)
(* gate accepted (request.user.email), and changes nothing but the         *)
(* password.                                                               *)
(***************************************************************************)
C32_UpdateOwnPasswordOnly ==
  [][ \A p \in Procs :
        LastStep(p, "updatePassword") =>
          \A u \in users :
            \/ u \in users'
            \/ /\ u.email = req[p].user.email
               /\ \E v \in users' : /\ v = [u EXCEPT !.password = v.password]
                                    /\ users' = (users \ {u}) \cup {v}
    ]_vars

(***************************************************************************)
(* C33.  POST /auth/logout clears the token cookie exactly when the        *)
(* request carries a token that is well formed, signed with the server's   *)
(* key over its claims, not yet expired and naming a userId and an email.  *)
(* With no token or any other token the gate answers 401, logoutController *)
(* does not run, the response clears nothing and the browser keeps the     *)
(* cookie it holds.                                                        *)
(***************************************************************************)
C33_LogoutClearsOnlyWithValidToken ==
  [][ (res'.op = "logout" /\ res'.cause = "gate") =>
        LET token == res'.cookie
            valid == /\ token # NoJwt
                     /\ token.wellFormed
                     /\ token.key = env.JWT_SECRET
                     /\ token.signed = [payload |-> token.payload, iat |-> token.iat,
                                        exp |-> token.exp]
                     /\ now < token.exp
                     /\ {"userId", "email"} \subseteq DOMAIN token.payload
        IN IF valid
           THEN /\ res'.nextCalled
                /\ res'.status = 200
                /\ res'.clearCookie
                /\ res'.clearOptions = clearAuthCookie
           ELSE /\ ~res'.nextCalled
                /\ res'.status = 401
                /\ ~res'.clearCookie
                /\ res'.clearOptions = NULL
                /\ ~res'.ok
                /\ jar' = jar
    ]_vars

\* the browser's cookie outlived its token: the logout that sent it was
\* answered 401 and the browser still holds the cookie
C33_Witness ==
  /\ res.op = "logout"
  /\ res.cause = "gate"
  /\ res.status = 401
  /\ res.body = "Token expirado"
  /\ jar # NoCookie
  /\ res.cookie = jar.value
  /\ ~res.clearCookie

(***************************************************************************)
(* C34.  In a process that is listening, the key generateToken signs with  *)
(* is the key authenticateToken and optionalAuth verify with; and every    *)
(* token the process has issued, in a register response, in a login        *)
(* response or in the cookie the browser holds, is accepted while it is    *)
(* unexpired by the gate in both versions and by optionalAuth, with the    *)
(* token's userId and email as request.user.                               *)
(***************************************************************************)
C34_OwnTokensAccepted ==
  LET issued == ({res.jwt, res.setCookie} \ {NoJwt})
                  \cup (IF jar # NoCookie THEN {jar.value} ELSE {})
  IN /\ (server = "listening") =>
          (generateToken(1, "a@x.com").key = MiddlewareSecret)
     /\ \A t \in issued :
          (now < t.exp) =>
            (/\ server = "listening"
             /\ authenticateToken(t).nextCalled
             /\ authenticateToken(t).user = t.payload
             /\ authenticateTokenHeader(AuthHeader(<<"Bearer", t>>)).nextCalled
             /\ optionalAuth(t).user = t.payload
             /\ optionalAuthHeader(AuthHeader(<<"Bearer", t>>)).user = t.payload)

\* in production, one tick before its expiry, the token of the browser's
\* cookie is still accepted
C34_Witness ==
  /\ server = "listening"
  /\ isProduction
  /\ jar # NoCookie
  /\ now = jar.value.exp - 1
  /\ now > 0
  /\ authenticateToken(jar.value).nextCalled

(***************************************************************************)
(* C35.  passwordResetLimiter counts the requests of a client address to   *)
(* POST /forgot-password and POST /reset-password in one counter, in front *)
(* of validation and controller.  In each window of the limiter, the 15    *)
(* minutes that start with the first request the address sends after the   *)
(* window before has ended, at most 3 of its requests reach the two        *)
(* controllers; a request that is the 4th or a later one counted in the    *)
(* window is answered 429, starts no handler and leaves the store, the     *)
(* outbox and the token counter as they were.                              *)
(***************************************************************************)
C35_ThreePerLimiterWindow ==
  /\ [](LET inWindow == {i \in DOMAIN limiter.reached :
                           limiter.reached[i] >= limiter.resetTime - LimiterWindow}
        IN /\ Cardinality(inWindow) <= LimiterMax
           /\ Cardinality(inWindow) <= limiter.totalHits
           /\ \A i \in DOMAIN limiter.reached : limiter.reached[i] < limiter.resetTime)
  /\ [][ (limiter' # limiter) =>
           LET open == now < limiter.resetTime
               counted == IF open THEN limiter.totalHits ELSE 0
           IN /\ res'.op \in {"forgot", "reset"} \/ pc' # pc
              /\ limiter'.totalHits = counted + 1
              /\ limiter'.resetTime = IF open THEN limiter.resetTime ELSE now + LimiterWindow
              /\ IF counted >= LimiterMax
                 THEN /\ res'.cause = "limiter"
                      /\ res'.status = 429
                      /\ ~res'.ok
                      /\ pc' = pc
                      /\ users' = users
                      /\ outbox' = outbox
                      /\ nextToken' = nextToken
                      /\ limiter'.reached = limiter.reached
                 ELSE /\ res'.cause # "limiter"
                      /\ res'.status # 429 \/ res'.error = "RATE_LIMIT"
                      /\ (res'.cause # "validation") =>
                           (limiter'.reached = Append(limiter.reached, now))
       ]_vars

\* the address sent three requests that reached a controller, and its fourth
\* in the window was answered 429
C35_Witness ==
  /\ res.cause = "limiter"
  /\ res.status = 429
  /\ limiter.totalHits = LimiterMax + 1
  /\ Len(limiter.reached) = LimiterMax
  /\ now < limiter.resetTime

\* the claim as it was stated: of the requests of one address, no more than 3
\* reach the controllers within any 15 minutes, wherever the 15 minutes start
C35_ThreePerAnyQuarterHour ==
  /\ \A i, j \in DOMAIN limiter.reached :
       (j >= i + LimiterMax) => (limiter.reached[j] - limiter.reached[i] >= LimiterWindow)
  /\ (res.cause = "limiter") => (res.status = 429)

(***************************************************************************)
(* C36.  loginUser, authenticateToken, optionalAuth and logoutController   *)
(* write nothing to the User table: every step of a login, whether it      *)
(* succeeds or fails, and every request the gate or optionalAuth answers   *)
(* or hands on, logout included, leaves every record as it was.            *)
(***************************************************************************)
C36_SessionRoutesDoNotWrite ==
  [][ /\ \A p \in Procs :
           (FirstStep(p, "login", "loginCompare") \/ LastStep(p, "loginCompare")) =>
             (users' = users)
      /\ (res'.op \in {"login", "logout", "optional"}) => (users' = users)
      /\ (res'.cause \in {"gate", "header gate", "optionalAuth", "optionalAuth header"}) =>
           (users' = users)
      /\ (users' # users) => (res'.op = "register" /\ res'.ok)
    ]_vars

\* with two accounts in the table, a login succeeded and the logout that
\* followed was accepted
C36_Witness ==
  /\ res.op = "logout"
  /\ res.ok
  /\ res.clearCookie
  /\ res.evicted
  /\ Cardinality(users) = 2
  /\ \E u \in users : u.id = res.user.userId /\ u.email = res.user.email

(***************************************************************************)
(* C37: the password migration script is idempotent.  A step of the script *)
(* that changes the table changes the password of exactly one user, one    *)
(* whose stored password did not start with $2b$, to the bcrypt hash of    *)
(* that password; a stored password that starts with $2b$ is left as it is *)
(* by every step of the script; and once a run has completed, no step of a *)
(* later run changes any record.                                           *)
(***************************************************************************)
C37_MigrationIdempotent ==
  [][ (script' # script) =>
        /\ (\A u \in users : startsWith(u.password, "$2b$") => (u \in users'))
        /\ ((users' # users) =>
              (\E u \in users :
                 /\ ~ startsWith(u.password, "$2b$")
                 /\ users' = (users \ {u}) \cup
                      {[u EXCEPT !.password = BcryptHash(u.password, MigrationRounds)]}))
        /\ ((script.runs >= 1) => (users' = users)) ]_vars

\* two runs have completed: the first hashed a password stored in clear, and
\* a password registerUser had hashed is as it was
C37_Witness ==
  /\ script.runs = MaxRuns
  /\ script.pc = "idle"
  /\ \E u \in users : u.password = BcryptHash(Password("Abc12345!", ""), MigrationRounds)
  /\ \E u \in users : u.password = BcryptHash(Password("Abc12345!", ""), BcryptRounds)

====
